---- MODULE Spec2Model ----
(***************************************************************************)
(* A model of cargo-ninja's graph lowering: BuildPlan::to_ninja            *)
(* (src/src/build_plan.rs), Invocation::ninja_build (src/src/main.rs) and  *)
(* the lazy script stage (build_script_output / run_build_script).         *)
(*                                                                         *)
(* Plan indices are 1-based here (Rust: 0-based); deps hold indices.       *)
(* A path is a sequence of components; a component [s, n, x] is the name   *)
(* s, the per-invocation suffix n cargo puts in file names (0: none) and   *)
(* the extension x ("" : none).                                            *)
(***************************************************************************)
EXTENDS Integers, Sequences, FiniteSets, TLC

\* ------------------------------------------------------------------ bounds
MaxInv == 3
MaxLowerings == 2

\* ----------------------------------------------------------------- strings
\* A string is the sequence of its characters, each a one-character string.
is_whitespace(c) == c \in {" ", "\t"}

starts_with(s, prefix) ==
    Len(s) >= Len(prefix) /\ SubSeq(s, 1, Len(prefix)) = prefix

\* What a command line holds: a string, or a path rendered by to_str()
Text(s) == [text |-> s, path |-> << >>]
PathText(p) == [text |-> << >>, path |-> p]

\* snailquote::escape on the strings met here (no quote, backslash or
\* control character): unchanged when no character needs quoting, else
\* wrapped in single quotes
escape(s) ==
    IF \E k \in DOMAIN s : is_whitespace(s[k])
    THEN << "'" >> \o s \o << "'" >>
    ELSE s

\* ------------------------------------------------------------------- paths
Comp(s, n, x) == [s |-> s, n |-> n, x |-> x]

\* Utf8Path::parent: None (here <<"none">>-free: HasParent) for an empty path.
HasParent(p) == Len(p) > 0
Parent(p) == SubSeq(p, 1, Len(p) - 1)
Join(dir, c) == Append(dir, c)

\* Path::extension() of the last component; "" stands for None.
Extension(p) == IF Len(p) = 0 THEN "" ELSE p[Len(p)].x

\* The closure used by links() and outputs(): extension().map_or(false, |e| e == "dwp")
IsDwp(p) == Extension(p) = "dwp"

\* main.rs ninja_dir: p.parent().map(|p| p.join(".ninja_dir"))
ninja_dir(p) == Join(Parent(p), Comp(".ninja_dir", 0, ""))

\* The build directory every path of the plan lives under.
BuildRoot == << Comp("b", 0, "") >>

\* ---------------------------------------------------------------- the plan
\* CompileMode and TargetKind values met in the plans below
\* (build_plan.rs:41-49, 135-160); Lib stands for Lib(kinds).
\* METADATA.workspace_packages(): name and version of each workspace member
PackageVersion == "0.1.0"
WorkspacePackages == { << <<"a","p","p">>, PackageVersion >>, << <<"m","y","-","a","p","p">>, PackageVersion >> }

NoEnv == [k \in {} |-> << >>]

\* The artifacts cargo lists for invocation i, by the shape of the unit:
\*   lib    a registry dependency's library: outputs in deps/, no hard-links
\*   wslib  a workspace library: outputs in deps/, the rlib uplifted to the root
\*   bin    a workspace binary with a packed split-debuginfo file (dwp), both uplifted
\*   build  a build script's binary: output and link in build/<pkg>-<i>/
\*   run    the execution of a build script: a raw output the lowering never
\*          uses, OUT_DIR = build/<pkg>-<i>/out
\* The compiler invocations carry arguments that ask for machine-readable
\* diagnostics, one that needs quoting, and near misses of the filtered ones.
Shapes == {"lib", "wslib", "bin", "build", "run"}

Deps(b, n) == Join(Join(BuildRoot, Comp("deps", 0, "")), Comp(b, n, ""))
DepsX(b, n, x) == Join(Join(BuildRoot, Comp("deps", 0, "")), Comp(b, n, x))
Root(b, n, x) == Join(BuildRoot, Comp(b, n, x))
ScriptDir(i) == Join(Join(BuildRoot, Comp("build", 0, "")), Comp("pkg", i, ""))

\* cwd of the workspace's units and of the registry's
Workspace == << Comp("ws", 0, "") >>
Registry == << Comp("reg", 0, "") >>

Invocation(shape, i, deps) ==
    CASE shape = "lib" ->
           [package_name |-> <<"d","e","p">>, package_version |-> PackageVersion,
            target_kind |-> "Lib", compile_mode |-> "Build", deps |-> deps,
            outputs |-> << DepsX("libdep", i, "rlib"), DepsX("libdep", i, "rmeta") >>,
            links |-> << >>, env |-> NoEnv,
            program |-> Text(<<"r","u","s","t","c">>), cwd |-> Registry,
            args |-> << <<"-","-","e","r","r","o","r","-","f","o","r","m","a","t","=","j","s","o","n">>, <<"-","-","j","s","o","n","=","a">>, <<"l","i","b",".","r","s">> >>]
      [] shape = "wslib" ->
           [package_name |-> <<"a","p","p">>, package_version |-> PackageVersion,
            target_kind |-> "Lib", compile_mode |-> "Build", deps |-> deps,
            outputs |-> << DepsX("libapp", i, "rlib"), DepsX("libapp", i, "rmeta") >>,
            links |-> << << Root("libapp", i, "rlib"), DepsX("libapp", i, "rlib") >> >>,
            env |-> NoEnv,
            program |-> Text(<<"r","u","s","t","c">>), cwd |-> Workspace,
            args |-> << <<"l","i","b",".","r","s">>, <<"-","-","c","f","g">>, <<"a"," ","b">>, <<"-","-","e","r","r","o","r","-","f","o","r","m","a","t","=","j","s","o","n">> >>]
      [] shape = "bin" ->
           [package_name |-> <<"a","p","p">>, package_version |-> PackageVersion,
            target_kind |-> "Bin", compile_mode |-> "Build", deps |-> deps,
            outputs |-> << Deps("app", i), DepsX("app", i, "dwp") >>,
            links |-> << << Root("app", i, ""), Deps("app", i) >>,
                         << Root("app", i, "dwp"), DepsX("app", i, "dwp") >> >>,
            env |-> NoEnv,
            program |-> Text(<<"r","u","s","t","c">>), cwd |-> Workspace,
            args |-> << <<"-","-","j","s","o","n","=">>, <<"m","a","i","n",".","r","s">>, <<"-","-","e","r","r","o","r","-","f","o","r","m","a","t","=","j","s","o","n">>,
                        <<"-","-","e","r","r","o","r","-","f","o","r","m","a","t","=","j","s","o","n">> >>]
      [] shape = "build" ->
           [package_name |-> <<"a","p","p">>, package_version |-> PackageVersion,
            target_kind |-> "CustomBuild", compile_mode |-> "Build", deps |-> deps,
            outputs |-> << Join(ScriptDir(i), Comp("build_script_build", i, "")) >>,
            links |-> << << Join(ScriptDir(i), Comp("build-script-build", 0, "")),
                            Join(ScriptDir(i), Comp("build_script_build", i, "")) >> >>,
            env |-> NoEnv,
            program |-> Text(<<"r","u","s","t","c">>), cwd |-> Workspace,
            args |-> << <<"b","u","i","l","d",".","r","s">>, <<"-","-","j","s","o","n">>, <<"-","-","e","r","r","o","r","-","f","o","r","m","a","t","=","s","h","o","r","t">> >>]
      [] OTHER ->
           [package_name |-> <<"a","p","p">>, package_version |-> PackageVersion,
            target_kind |-> "CustomBuild", compile_mode |-> "RunCustomBuild", deps |-> deps,
            outputs |-> << Join(ScriptDir(i), Comp("stamp", 0, "")) >>, links |-> << >>,
            env |-> [k \in {"OUT_DIR"} |-> Join(ScriptDir(i), Comp("out", 0, ""))],
            program |-> PathText(Join(ScriptDir(i), Comp("build-script-build", 0, ""))),
            cwd |-> Workspace, args |-> << >>]

\* deps: indices of earlier invocations (the plan is topologically ordered),
\* in ascending order.
RECURSIVE Ascending(_, _)
Ascending(S, n) ==
    IF n = 0 THEN << >>
    ELSE IF n \in S THEN Append(Ascending(S, n - 1), n) ELSE Ascending(S, n - 1)

DepLists(i) == { Ascending(S, i - 1) : S \in SUBSET (1 .. i - 1) }

Plans ==
    { [i \in 1 .. MaxInv |-> Invocation(sh[i], i, dl[i])] :
        sh \in [1 .. MaxInv -> Shapes],
        dl \in { f \in [1 .. MaxInv -> UNION { DepLists(i) : i \in 1 .. MaxInv }] :
                   \A i \in 1 .. MaxInv : f[i] \in DepLists(i) } }

\* ------------------------------------------------------- Invocation methods
is_run_custom_build(inv) == inv.compile_mode = "RunCustomBuild"

is_custom_build(inv) == inv.target_kind = "CustomBuild"

\* METADATA.workspace_packages().find(name and version match, neither the
\* script nor its run)
is_workspace_build(inv) ==
    \E p \in WorkspacePackages :
        /\ p[1] = inv.package_name
        /\ p[2] = inv.package_version
        /\ ~is_run_custom_build(inv)
        /\ ~is_custom_build(inv)

RECURSIVE FilterPairs(_, _)
FilterPairs(pairs, k) ==
    IF k > Len(pairs) THEN << >>
    ELSE IF ~IsDwp(pairs[k][2])
         THEN << pairs[k] >> \o FilterPairs(pairs, k + 1)
         ELSE FilterPairs(pairs, k + 1)

\* links(): the (link, target) pairs whose target is no dwp file
links(inv) == FilterPairs(inv.links, 1)

RECURSIVE FilterPaths(_, _)
FilterPaths(ps, k) ==
    IF k > Len(ps) THEN << >>
    ELSE IF ~IsDwp(ps[k])
         THEN << ps[k] >> \o FilterPaths(ps, k + 1)
         ELSE FilterPaths(ps, k + 1)

has_out_dir(inv) == "OUT_DIR" \in DOMAIN inv.env
out_dir(inv) == inv.env["OUT_DIR"]

\* build_script_output_file(): Err when OUT_DIR is unset or has no parent
has_build_script_output_file(inv) == has_out_dir(inv) /\ HasParent(out_dir(inv))
build_script_output_file(inv) == Join(Parent(out_dir(inv)), Comp("output", 0, ""))

\* Mutant of outputs: the dwp filter dropped
outputs_unfiltered(inv) ==
    IF inv.compile_mode = "RunCustomBuild"
    THEN << build_script_output_file(inv) >>
    ELSE inv.outputs

\* outputs(): the captured instruction stream for a RunCustomBuild
\* invocation, the plan's outputs without the dwp files otherwise
outputs(inv) ==
    IF inv.compile_mode = "RunCustomBuild"
    THEN << build_script_output_file(inv) >>
    ELSE FilterPaths(inv.outputs, 1)

\* The file run_build_script writes the script's own graph to
script_ninja_file(inv) == Join(Parent(out_dir(inv)), Comp("build.ninja", 0, ""))

Range(seq) == { seq[k] : k \in DOMAIN seq }
LinkKeys(pairs) == [k \in DOMAIN pairs |-> pairs[k][1]]

\* Mutant of skipped: only the runs of scripts are skipped
skipped_runs_only(d, include_custom_build) ==
    ~include_custom_build /\ is_run_custom_build(d)

\* !include_custom_build && (d.is_run_custom_build() || d.is_custom_build())
skipped(d, include_custom_build) ==
    ~include_custom_build /\ (is_run_custom_build(d) \/ is_custom_build(d))

\* Mutant of collect_deps_from: the recursion into the predecessor dropped
RECURSIVE collect_deps_shallow(_, _, _, _, _)
collect_deps_shallow(pl, i, k, deps, include_custom_build) ==
    IF k > Len(pl[i].deps) THEN deps
    ELSE LET d == pl[i].deps[k] IN
         IF ~include_custom_build
               /\ (is_run_custom_build(pl[d]) \/ is_custom_build(pl[d]))
         THEN collect_deps_shallow(pl, i, k + 1, deps, include_custom_build)
         ELSE collect_deps_shallow(pl, i, k + 1, deps \cup {d}, include_custom_build)

\* ----------------------------------------------------- collect_deps_recursively
\* for i in invocation.deps { if pruned continue; deps.insert(i); recurse }
RECURSIVE collect_deps_from(_, _, _, _, _)
collect_deps_from(pl, i, k, deps, include_custom_build) ==
    IF k > Len(pl[i].deps) THEN deps
    ELSE LET d == pl[i].deps[k] IN
         IF skipped(pl[d], include_custom_build)
         THEN collect_deps_from(pl, i, k + 1, deps, include_custom_build)
         ELSE collect_deps_from(pl, i, k + 1,
                  collect_deps_from(pl, d, 1, deps \cup {d}, include_custom_build),
                  include_custom_build)

collect_deps_recursively(pl, i, deps, include_custom_build) ==
    collect_deps_from(pl, i, 1, deps, include_custom_build)

\* ------------------------------------------------------------ the build graph
\* A FileBuilder: rules by rule id, build edges by the path they produce.
\* file() and merge() insert by key: a later entry for a key replaces the
\* earlier one.
LINK_RULE_ID == << "link" >>
ENSURE_DIR_ALL_RULE_ID == << "ensure_dir_all" >>

NoFn == [k \in {} |-> 0]
NewFileBuilder == [rules |-> NoFn, builds |-> NoFn]

WithRule(builder, id, rule) == [builder EXCEPT !.rules = (id :> rule) @@ @]
WithFile(builder, path, build) == [builder EXCEPT !.builds = (path :> build) @@ @]
Merge(builder, other) ==
    [rules |-> other.rules @@ builder.rules, builds |-> other.builds @@ builder.builds]

\* custom_build_output: None, or Some(the parsed output of script d)
None == [some |-> FALSE, of |-> 0]
Some(d) == [some |-> TRUE, of |-> d]

\* Mutant of rule_id: the plan index left out
rule_id_unindexed(inv, indice) ==
    << 0, inv.package_name, inv.package_version, inv.target_kind, inv.compile_mode >>

\* rule_id(indice): "{indice}-{package_name}-{package_version}-{kind}-{mode}"
rule_id(inv, indice) ==
    << indice, inv.package_name, inv.package_version, inv.target_kind, inv.compile_mode >>

\* dirs(): nothing for a run-custom-build invocation, else the marker of
\* each output's directory
dirs(inv) ==
    IF inv.compile_mode = "RunCustomBuild" THEN << >>
    ELSE LET outs == outputs(inv) IN [k \in DOMAIN outs |-> ninja_dir(outs[k])]

\* The edge of one output o: the explicit deps, and the marker of o's directory
OutputBuild(id, deps, o) ==
    [rule |-> id, explicit |-> deps,
     implicit |-> IF HasParent(o) THEN << ninja_dir(o) >> ELSE << >>]

\* Mutant of LinkBuild: the edge made to depend on the link itself
LinkBuildOnLink(link, target) ==
    [rule |-> LINK_RULE_ID, explicit |-> << link >>,
     implicit |-> IF HasParent(target) THEN << ninja_dir(target) >> ELSE << >>]

\* The hard-link edge of (link, target)
LinkBuild(link, target) ==
    [rule |-> LINK_RULE_ID, explicit |-> << target >>,
     implicit |-> IF HasParent(target) THEN << ninja_dir(target) >> ELSE << >>]

EnsureDirBuild == [rule |-> ENSURE_DIR_ALL_RULE_ID, explicit |-> << >>, implicit |-> << >>]

\* A CommandBuilder: program, cwd, the arg() calls and the env() calls
CommandBuilder(program, cwd) ==
    [program |-> program, cwd |-> cwd, args |-> << >>, env |-> << >>]
arg(cmd, a) == [cmd EXCEPT !.args = Append(@, a)]
env(cmd, name, value) == [cmd EXCEPT !.env = Append(@, << name, value >>)]

NoCwd == << >>

\* link_rule() on unix: ln -f $in $out
link_rule ==
    [custom_build_output |-> None,
     command |-> arg(arg(arg(CommandBuilder(Text(<<"l","n">>), NoCwd), Text(<<"-","f">>)),
                         Text(<<"$","i","n">>)), Text(<<"$","o","u","t">>))]

\* ensure_dir_all_rule() on unix: mkdir -p $$(dirname $out) && touch $out
ensure_dir_all_rule ==
    [custom_build_output |-> None,
     command |-> arg(arg(arg(arg(arg(CommandBuilder(Text(<<"m","k","d","i","r">>), NoCwd),
                                     Text(<<"-","p">>)), Text(<<"$","$","(","d","i","r","n","a","m","e"," ","$","o","u","t",")">>)),
                             Text(<<"&","&">>)), Text(<<"t","o","u","c","h">>)), Text(<<"$","o","u","t">>))]

\* Mutant of ArgsFold: nothing filtered out
RECURSIVE ArgsFoldUnfiltered(_, _, _)
ArgsFoldUnfiltered(cmd, args, k) ==
    IF k > Len(args) THEN cmd
    ELSE ArgsFoldUnfiltered(arg(cmd, Text(escape(args[k]))), args, k + 1)

\* self.args.iter().fold(command, ...): --error-format=json and --json=*
\* are skipped, every other argument is added escaped
RECURSIVE ArgsFold(_, _, _)
ArgsFold(cmd, args, k) ==
    IF k > Len(args) THEN cmd
    ELSE IF args[k] = <<"-","-","e","r","r","o","r","-","f","o","r","m","a","t","=","j","s","o","n">> \/ starts_with(args[k], <<"-","-","j","s","o","n","=">>)
         THEN ArgsFold(cmd, args, k + 1)
         ELSE ArgsFold(arg(cmd, Text(escape(args[k]))), args, k + 1)

\* self.env.iter().fold(command, ...): BTreeMap order; the one variable of
\* the plans here is OUT_DIR, whose value needs no quoting
EnvFold(cmd, envs) ==
    IF "OUT_DIR" \in DOMAIN envs
    THEN env(cmd, Text(<<"O","U","T","_","D","I","R">>), PathText(envs["OUT_DIR"]))
    ELSE cmd

\* The suffix of a run-custom-build command: && cd - && touch <outputs()[0]>
RunSuffix(cmd, inv) ==
    IF inv.compile_mode = "RunCustomBuild"
    THEN arg(arg(arg(arg(arg(cmd, Text(<<"&","&">>)), Text(<<"c","d"," ","-">>)), Text(<<"&","&">>)),
                 Text(<<"t","o","u","c","h">>)), PathText(outputs(inv)[1]))
    ELSE cmd

\* The rule's command built by ninja_build
command(inv) ==
    RunSuffix(
        EnvFold(
            arg(ArgsFold(arg(CommandBuilder(Text(<<"s","t","r","a","c","e">>), inv.cwd), inv.program),
                         inv.args, 1),
                Text(<<"-","-","e","r","r","o","r","-","f","o","r","m","a","t","=","h","u","m","a","n">>)),
            inv.env),
        inv)

RECURSIVE OutputsFold(_, _, _, _, _)
OutputsFold(file, id, deps, outs, k) ==
    IF k > Len(outs) THEN file
    ELSE OutputsFold(WithFile(file, outs[k], OutputBuild(id, deps, outs[k])),
                     id, deps, outs, k + 1)

RECURSIVE DirsFold(_, _, _)
DirsFold(file, ds, k) ==
    IF k > Len(ds) THEN file
    ELSE DirsFold(Merge(file, WithFile(WithRule(NewFileBuilder, ENSURE_DIR_ALL_RULE_ID,
                                                ensure_dir_all_rule),
                                       ds[k], EnsureDirBuild)),
                  ds, k + 1)

\* Mutant of LinksFold: the hard-link edges forgotten
LinksFoldNone(file, ls, k) == file

RECURSIVE LinksFold(_, _, _)
LinksFold(file, ls, k) ==
    IF k > Len(ls) THEN file
    ELSE LinksFold(Merge(file, WithFile(WithRule(NewFileBuilder, LINK_RULE_ID,
                                                 link_rule),
                                        ls[k][1], LinkBuild(ls[k][1], ls[k][2]))),
                   ls, k + 1)

\* ninja_build(indice, deps, custom_build_output): the invocation's rule, one
\* edge per output, the directory markers, the hard links
ninja_build(inv, indice, deps, custom_build_output) ==
    LET id == rule_id(inv, indice)
        file0 == WithRule(NewFileBuilder, id,
                          [custom_build_output |-> custom_build_output,
                           command |-> command(inv)])
        file1 == OutputsFold(file0, id, deps, outputs(inv), 1)
        file2 == DirsFold(file1, dirs(inv), 1)
    IN LinksFold(file2, links(inv), 1)

\* --------------------------------------------------------- string operations
\* The index of the first c in s from position k on; 0 when there is none
RECURSIVE find(_, _, _)
find(s, c, k) ==
    IF k > Len(s) THEN 0 ELSE IF s[k] = c THEN k ELSE find(s, c, k + 1)

\* splitn(2, c) and split_once(c): the text before and after the first c
contains(s, c) == find(s, c, 1) # 0
Before(s, c) == SubSeq(s, 1, find(s, c, 1) - 1)
After(s, c) == SubSeq(s, find(s, c, 1) + 1, Len(s))

\* split(c): the pieces between the occurrences of c, piece being the one
\* read so far
RECURSIVE split_from(_, _, _, _)
split_from(s, c, k, piece) ==
    IF k > Len(s) THEN << piece >>
    ELSE IF s[k] = c
         THEN << piece >> \o split_from(s, c, k + 1, << >>)
         ELSE split_from(s, c, k + 1, Append(piece, s[k]))

split(s, c) == split_from(s, c, 1, << >>)

RECURSIVE trim_start(_)
trim_start(s) ==
    IF s # << >> /\ is_whitespace(s[1]) THEN trim_start(Tail(s)) ELSE s

RECURSIVE trim_end(_)
trim_end(s) ==
    IF s # << >> /\ is_whitespace(s[Len(s)])
    THEN trim_end(SubSeq(s, 1, Len(s) - 1))
    ELSE s

trim(s) == trim_end(trim_start(s))

\* split(|c| c.is_whitespace()).filter(|w| w.chars().any(|c| !c.is_whitespace()))
RECURSIVE split_whitespace(_, _, _)
split_whitespace(s, k, word) ==
    IF k > Len(s) THEN (IF word = << >> THEN << >> ELSE << word >>)
    ELSE IF is_whitespace(s[k])
         THEN (IF word = << >> THEN << >> ELSE << word >>)
                  \o split_whitespace(s, k + 1, << >>)
         ELSE split_whitespace(s, k + 1, Append(word, s[k]))

\* str::replace(from, to), from non-empty
RECURSIVE replace(_, _, _)
replace(s, from, to) ==
    IF s = << >> THEN << >>
    ELSE IF starts_with(s, from)
         THEN to \o replace(SubSeq(s, Len(from) + 1, Len(s)), from, to)
         ELSE << s[1] >> \o replace(Tail(s), from, to)

\* A byte that is no UTF-8: str::from_utf8 fails on a line holding it
InvalidByte == "0xFF"
from_utf8_ok(line) == \A k \in DOMAIN line : line[k] # InvalidByte

\* char::to_uppercase on the letters met here; other characters map to
\* themselves
to_uppercase(c) ==
    CASE c = "a" -> "A" [] c = "b" -> "B" [] c = "c" -> "C" [] c = "d" -> "D"
      [] c = "e" -> "E" [] c = "f" -> "F" [] c = "g" -> "G" [] c = "h" -> "H"
      [] c = "i" -> "I" [] c = "j" -> "J" [] c = "k" -> "K" [] c = "l" -> "L"
      [] c = "m" -> "M" [] c = "n" -> "N" [] c = "o" -> "O" [] c = "p" -> "P"
      [] c = "q" -> "Q" [] c = "r" -> "R" [] c = "s" -> "S" [] c = "t" -> "T"
      [] c = "u" -> "U" [] c = "v" -> "V" [] c = "w" -> "W" [] c = "x" -> "X"
      [] c = "y" -> "Y" [] c = "z" -> "Z" [] OTHER -> c

\* ------------------------------------------------- BuildScriptOutput::parse
EmptyOutput ==
    [library_paths |-> << >>, library_links |-> << >>, linker_args |-> << >>,
     cfgs |-> << >>, check_cfgs |-> << >>, env |-> << >>, metadata |-> << >>,
     rerun_if_changed |-> << >>, rerun_if_env_changed |-> << >>,
     warnings |-> << >>]

\* anyhow::Result<BuildScriptOutput>: no output comes with an error
Ok(out) == [ok |-> TRUE, err |-> "", out |-> out]
Err(e) == [ok |-> FALSE, err |-> e, out |-> EmptyOutput]

\* Option<String>, Option<RustVersion>, and the result of std::env::var
NoName == [some |-> FALSE, name |-> << >>]
SomeName(n) == [some |-> TRUE, name |-> n]
NoVersion == [some |-> FALSE, v |-> << 0, 0, 0 >>]
SomeVersion(major, minor, patch) == [some |-> TRUE, v |-> << major, minor, patch >>]
NotPresent == [set |-> FALSE, value |-> << >>]
Var(value) == [set |-> TRUE, value |-> value]

\* LinkArgTarget
LinkArgTarget(kind) == [kind |-> kind, name |-> << >>]
SingleBin(name) == [kind |-> "SingleBin", name |-> name]

RESERVED_PREFIXES ==
    { <<"r","u","s","t","c","-","f","l","a","g","s","=">>, <<"r","u","s","t","c","-","l","i","n","k","-","l","i","b","=">>, <<"r","u","s","t","c","-","l","i","n","k","-","s","e","a","r","c","h","=">>,
      <<"r","u","s","t","c","-","l","i","n","k","-","a","r","g","-","c","d","y","l","i","b","=">>, <<"r","u","s","t","c","-","c","d","y","l","i","b","-","l","i","n","k","-","a","r","g","=">>,
      <<"r","u","s","t","c","-","l","i","n","k","-","a","r","g","-","b","i","n","s","=">>, <<"r","u","s","t","c","-","l","i","n","k","-","a","r","g","-","b","i","n","=">>,
      <<"r","u","s","t","c","-","l","i","n","k","-","a","r","g","-","t","e","s","t","s","=">>, <<"r","u","s","t","c","-","l","i","n","k","-","a","r","g","-","b","e","n","c","h","e","s","=">>,
      <<"r","u","s","t","c","-","l","i","n","k","-","a","r","g","-","e","x","a","m","p","l","e","s","=">>, <<"r","u","s","t","c","-","l","i","n","k","-","a","r","g","=">>, <<"r","u","s","t","c","-","c","f","g","=">>,
      <<"r","u","s","t","c","-","c","h","e","c","k","-","c","f","g","=">>, <<"r","u","s","t","c","-","e","n","v","=">>, <<"w","a","r","n","i","n","g","=">>,
      <<"r","e","r","u","n","-","i","f","-","c","h","a","n","g","e","d","=">>, <<"r","e","r","u","n","-","i","f","-","e","n","v","-","c","h","a","n","g","e","d","=">> }

\* RustVersion's order on major.minor.patch
VersionLess(a, b) ==
    \/ a[1] < b[1]
    \/ a[1] = b[1] /\ a[2] < b[2]
    \/ a[1] = b[1] /\ a[2] = b[2] /\ a[3] < b[3]

new_syntax_added_in == << 1, 77, 0 >>

\* Mutant of check_minimum_supported_rust_version_for_new_syntax: no check
check_minimum_supported_rust_version_never(msrv) == TRUE

\* TRUE for Ok(()): no msrv, or one that is not below 1.77.0
check_minimum_supported_rust_version_for_new_syntax(msrv) ==
    ~(msrv.some /\ VersionLess(msrv.v, new_syntax_added_in))

\* What the head of the loop body yields for a line: nothing (skip), an
\* error, or the (key, value) to dispatch
Skip == [kind |-> "skip", err |-> "", key |-> << >>, value |-> << >>, old_syntax |-> FALSE]
Bail(e, old) == [kind |-> "err", err |-> e, key |-> << >>, value |-> << >>, old_syntax |-> old]
KeyValue(k, v, old) == [kind |-> "kv", err |-> "", key |-> k, value |-> v, old_syntax |-> old]

\* parse_directive: data.splitn(2, "="), the value trimmed at its end
parse_directive(data, old_syntax) ==
    IF contains(data, "=")
    THEN KeyValue(Before(data, "="), trim_end(After(data, "=")), old_syntax)
    ELSE Bail("no_equals", old_syntax)

\* Mutant of parse_metadata: a value without `=` taken as a key
parse_metadata_lenient(data, old_syntax) ==
    IF contains(data, "=")
    THEN KeyValue(Before(data, "="), trim_end(After(data, "=")), old_syntax)
    ELSE KeyValue(data, << >>, old_syntax)

\* parse_metadata: the same split, for the value of a metadata line
parse_metadata(data, old_syntax) ==
    IF contains(data, "=")
    THEN KeyValue(Before(data, "="), trim_end(After(data, "=")), old_syntax)
    ELSE Bail("no_equals", old_syntax)

strip_prefix(s, prefix) == SubSeq(s, Len(prefix) + 1, Len(s))

\* Mutant of Directive: an old-syntax line is never taken as metadata
DirectiveAlwaysTyped(line, msrv) ==
    IF starts_with(line, <<"c","a","r","g","o",":",":">>)
    THEN IF ~check_minimum_supported_rust_version_for_new_syntax(msrv)
         THEN Bail("msrv", FALSE)
         ELSE parse_directive(strip_prefix(line, <<"c","a","r","g","o",":",":">>), FALSE)
    ELSE IF starts_with(line, <<"c","a","r","g","o",":">>)
         THEN parse_directive(strip_prefix(line, <<"c","a","r","g","o",":">>), TRUE)
         ELSE Skip

\* let (key, value) = if let Some(data) = line.strip_prefix("cargo::") ...
Directive(line, msrv) ==
    IF starts_with(line, <<"c","a","r","g","o",":",":">>)
    THEN IF ~check_minimum_supported_rust_version_for_new_syntax(msrv)
         THEN Bail("msrv", FALSE)
         ELSE parse_directive(strip_prefix(line, <<"c","a","r","g","o",":",":">>), FALSE)
    ELSE IF starts_with(line, <<"c","a","r","g","o",":">>)
         THEN IF \E prefix \in RESERVED_PREFIXES :
                     starts_with(strip_prefix(line, <<"c","a","r","g","o",":">>), prefix)
              THEN parse_directive(strip_prefix(line, <<"c","a","r","g","o",":">>), TRUE)
              ELSE KeyValue(<<"m","e","t","a","d","a","t","a">>, strip_prefix(line, <<"c","a","r","g","o",":">>), TRUE)
         ELSE Skip

\* parse_rustc_flags: the loop over the whitespace-separated tokens
Push(acc, flag, value) ==
    IF flag = <<"-","l">>
    THEN [acc EXCEPT !.library_links = Append(@, value)]
    ELSE [acc EXCEPT !.library_paths = Append(@, value)]

\* Mutant of flags_from: a token that is no flag is skipped
RECURSIVE flags_from_lenient(_, _, _)
flags_from_lenient(tokens, k, acc) ==
    IF k > Len(tokens) THEN acc
    ELSE IF starts_with(tokens[k], <<"-","l">>) \/ starts_with(tokens[k], <<"-","L">>)
         THEN IF Len(tokens[k]) = 2
              THEN IF k + 1 > Len(tokens)
                   THEN [acc EXCEPT !.ok = FALSE]
                   ELSE flags_from_lenient(tokens, k + 2,
                                           Push(acc, tokens[k], tokens[k + 1]))
              ELSE flags_from_lenient(tokens, k + 1,
                       Push(acc, SubSeq(tokens[k], 1, 2),
                            SubSeq(tokens[k], 3, Len(tokens[k]))))
         ELSE flags_from_lenient(tokens, k + 1, acc)

RECURSIVE flags_from(_, _, _)
flags_from(tokens, k, acc) ==
    IF k > Len(tokens) THEN acc
    ELSE IF starts_with(tokens[k], <<"-","l">>) \/ starts_with(tokens[k], <<"-","L">>)
         THEN IF Len(tokens[k]) = 2
              THEN IF k + 1 > Len(tokens)
                   THEN [acc EXCEPT !.ok = FALSE]
                   ELSE flags_from(tokens, k + 2, Push(acc, tokens[k], tokens[k + 1]))
              ELSE flags_from(tokens, k + 1,
                       Push(acc, SubSeq(tokens[k], 1, 2),
                            SubSeq(tokens[k], 3, Len(tokens[k]))))
         ELSE [acc EXCEPT !.ok = FALSE]

parse_rustc_flags(value) ==
    flags_from(split_whitespace(trim(value), 1, << >>), 1,
               [ok |-> TRUE, library_paths |-> << >>, library_links |-> << >>])

\* The closure rustc_bootstrap_allows: the external RUSTC_BOOTSTRAP lists
\* the library name
rustc_bootstrap_allows(name, RUSTC_BOOTSTRAP) ==
    /\ name.some
    /\ RUSTC_BOOTSTRAP.set
    /\ \E k \in DOMAIN split(RUSTC_BOOTSTRAP.value, ",") :
          split(RUSTC_BOOTSTRAP.value, ",")[k] = name.name

Warning(text) == [kind |-> "warning", text |-> text]
CannotSetBootstrap(val) == [kind |-> "rustc_bootstrap", text |-> val]

\* The arms of `match key` that can fail, given what they parsed
WithRustcFlags(out, flags) ==
    IF flags.ok
    THEN Ok([out EXCEPT !.library_links = @ \o flags.library_links,
                        !.library_paths = @ \o flags.library_paths])
    ELSE Err("rustc_flags")

\* Mutant of WithRustcEnv: an allowed RUSTC_BOOTSTRAP is warned about and set
WithRustcEnvSet(out, key, val, p) ==
    IF key = <<"R","U","S","T","C","_","B","O","O","T","S","T","R","A","P">>
          /\ ~(p.nightly_features_allowed
                 \/ rustc_bootstrap_allows(p.library_name, p.RUSTC_BOOTSTRAP))
    THEN Err("rustc_bootstrap")
    ELSE Ok([out EXCEPT !.env = Append(@, << key, val >>),
                        !.warnings = IF key = <<"R","U","S","T","C","_","B","O","O","T","S","T","R","A","P">>
                                     THEN Append(@, CannotSetBootstrap(val))
                                     ELSE @])

WithRustcEnv(out, key, val, p) ==
    IF key = <<"R","U","S","T","C","_","B","O","O","T","S","T","R","A","P">>
    THEN IF p.nightly_features_allowed
              \/ rustc_bootstrap_allows(p.library_name, p.RUSTC_BOOTSTRAP)
         THEN Ok([out EXCEPT !.warnings = Append(@, CannotSetBootstrap(val))])
         ELSE Err("rustc_bootstrap")
    ELSE Ok([out EXCEPT !.env = Append(@, << key, val >>)])

WithMetadata(out, kv) ==
    IF kv.kind = "kv"
    THEN Ok([out EXCEPT !.metadata = Append(@, << kv.key, kv.value >>)])
    ELSE Err(kv.err)

\* match key { ... }
Dispatch(out, key, value, old_syntax, p) ==
    CASE key = <<"r","u","s","t","c","-","f","l","a","g","s">> -> WithRustcFlags(out, parse_rustc_flags(value))
      [] key = <<"r","u","s","t","c","-","l","i","n","k","-","l","i","b">> ->
            Ok([out EXCEPT !.library_links = Append(@, value)])
      [] key = <<"r","u","s","t","c","-","l","i","n","k","-","s","e","a","r","c","h">> ->
            Ok([out EXCEPT !.library_paths = Append(@, value)])
      [] key = <<"r","u","s","t","c","-","l","i","n","k","-","a","r","g","-","c","d","y","l","i","b">> \/ key = <<"r","u","s","t","c","-","c","d","y","l","i","b","-","l","i","n","k","-","a","r","g">> ->
            Ok([out EXCEPT !.linker_args = Append(@, << LinkArgTarget("Cdylib"), value >>)])
      [] key = <<"r","u","s","t","c","-","l","i","n","k","-","a","r","g","-","b","i","n","s">> ->
            Ok([out EXCEPT !.linker_args = Append(@, << LinkArgTarget("Bin"), value >>)])
      [] key = <<"r","u","s","t","c","-","l","i","n","k","-","a","r","g","-","b","i","n">> ->
            IF contains(value, "=")
            THEN Ok([out EXCEPT !.linker_args =
                        Append(@, << SingleBin(Before(value, "=")), After(value, "=") >>)])
            ELSE Err("link_arg_bin")
      [] key = <<"r","u","s","t","c","-","l","i","n","k","-","a","r","g","-","t","e","s","t","s">> ->
            Ok([out EXCEPT !.linker_args = Append(@, << LinkArgTarget("Test"), value >>)])
      [] key = <<"r","u","s","t","c","-","l","i","n","k","-","a","r","g","-","b","e","n","c","h","e","s">> ->
            Ok([out EXCEPT !.linker_args = Append(@, << LinkArgTarget("Bench"), value >>)])
      [] key = <<"r","u","s","t","c","-","l","i","n","k","-","a","r","g","-","e","x","a","m","p","l","e","s">> ->
            Ok([out EXCEPT !.linker_args = Append(@, << LinkArgTarget("Example"), value >>)])
      [] key = <<"r","u","s","t","c","-","l","i","n","k","-","a","r","g">> ->
            Ok([out EXCEPT !.linker_args = Append(@, << LinkArgTarget("All"), value >>)])
      [] key = <<"r","u","s","t","c","-","c","f","g">> -> Ok([out EXCEPT !.cfgs = Append(@, value)])
      [] key = <<"r","u","s","t","c","-","c","h","e","c","k","-","c","f","g">> ->
            IF p.extra_check_cfg
            THEN Ok([out EXCEPT !.check_cfgs = Append(@, value)])
            ELSE Ok(out)
      [] key = <<"r","u","s","t","c","-","e","n","v">> ->
            IF contains(value, "=")
            THEN WithRustcEnv(out, Before(value, "="), After(value, "="), p)
            ELSE Err("rustc_env")
      [] key = <<"w","a","r","n","i","n","g">> -> Ok([out EXCEPT !.warnings = Append(@, Warning(value))])
      [] key = <<"r","e","r","u","n","-","i","f","-","c","h","a","n","g","e","d">> ->
            Ok([out EXCEPT !.rerun_if_changed = Append(@, value)])
      [] key = <<"r","e","r","u","n","-","i","f","-","e","n","v","-","c","h","a","n","g","e","d">> ->
            Ok([out EXCEPT !.rerun_if_env_changed = Append(@, value)])
      [] key = <<"m","e","t","a","d","a","t","a">> -> WithMetadata(out, parse_metadata(value, old_syntax))
      [] OTHER -> Err("unknown_key")

\* Mutant of ParseLine: the value is interpreted as the script printed it
ParseLineUnmoved(out, d, p) ==
    CASE d.kind = "skip" -> Ok(out)
      [] d.kind = "err" -> Err(d.err)
      [] OTHER -> Dispatch(out, d.key, d.value, d.old_syntax, p)

\* One turn of the loop over the lines, d being the line's Directive
ParseLine(out, d, p) ==
    CASE d.kind = "skip" -> Ok(out)
      [] d.kind = "err" -> Err(d.err)
      [] OTHER -> Dispatch(out, d.key,
                           replace(d.value, p.script_out_dir_when_generated,
                                   p.script_out_dir),
                           d.old_syntax, p)

\* for line in input.split(|b| *b == b'\n')
RECURSIVE ParseLines(_, _, _, _)
ParseLines(lines, k, res, p) ==
    IF k > Len(lines) \/ ~res.ok THEN res
    ELSE IF ~from_utf8_ok(lines[k])
         THEN ParseLines(lines, k + 1, res, p)
         ELSE ParseLines(lines, k + 1,
                         ParseLine(res.out, Directive(trim(lines[k]), p.msrv), p), p)

\* BuildScriptOutput::parse(input, library_name, pkg_descr,
\* script_out_dir_when_generated, script_out_dir, extra_check_cfg,
\* nightly_features_allowed, msrv); p holds the parameters and the
\* RUSTC_BOOTSTRAP variable of the process
parse(input, p) == ParseLines(split(input, "\n"), 1, Ok(EmptyOutput), p)

\* ------------------------------------------------------------ add_custom_flags
\* The consuming invocation as the applier sees it: its package name and its
\* TargetKind, a Lib with its crate types
Target(package_name, target_kind, crate_types) ==
    [package_name |-> package_name, target_kind |-> target_kind,
     crate_types |-> crate_types]

is_lib(target) == target.target_kind = "Lib"
is_cdylib(target) == target.target_kind = "Lib" /\ "cdylib" \in target.crate_types
is_bin(target) == target.target_kind = "Bin"
is_test(target) == target.target_kind = "Test"
is_bench(target) == target.target_kind = "Bench"
is_exe_example(target) == target.target_kind = "ExampleBin"

\* LinkArgTarget::applies_to
applies_to(lt, target) ==
    CASE lt.kind = "All" -> TRUE
      [] lt.kind = "Cdylib" -> is_cdylib(target)
      [] lt.kind = "Bin" -> is_bin(target)
      [] lt.kind = "SingleBin" -> is_bin(target) /\ target.package_name = lt.name
      [] lt.kind = "Test" -> is_test(target)
      [] lt.kind = "Bench" -> is_bench(target)
      [] OTHER -> is_exe_example(target)

RECURSIVE envify_from(_, _)
envify_from(s, k) ==
    IF k > Len(s) THEN << >>
    ELSE << IF to_uppercase(s[k]) = "-" THEN "_" ELSE to_uppercase(s[k]) >>
             \o envify_from(s, k + 1)

\* Mutant of envify: the dashes kept
RECURSIVE envify_keep_dash(_)
envify_keep_dash(s) ==
    IF s = << >> THEN << >> ELSE << to_uppercase(s[1]) >> \o envify_keep_dash(Tail(s))

\* envify: every character uppercased, then `-` replaced by `_`
envify(s) == envify_from(s, 1)

RECURSIVE CfgsFold(_, _, _)
CfgsFold(cmd, cfgs, k) ==
    IF k > Len(cfgs) THEN cmd
    ELSE CfgsFold(arg(arg(cmd, Text(<<"-","-","c","f","g">>)), Text(escape(cfgs[k]))), cfgs, k + 1)

\* Mutant of CheckCfgsFold: the enabling flag before every --check-cfg
RECURSIVE CheckCfgsFoldEach(_, _, _)
CheckCfgsFoldEach(cmd, cfgs, k) ==
    IF k > Len(cfgs) THEN cmd
    ELSE CheckCfgsFoldEach(
             arg(arg(arg(cmd, Text(<<"-","Z","u","n","s","t","a","b","l","e","-","o","p","t","i","o","n","s">>)), Text(<<"-","-","c","h","e","c","k","-","c","f","g">>)),
                 Text(escape(cfgs[k]))),
             cfgs, k + 1)

RECURSIVE CheckCfgsFold(_, _, _)
CheckCfgsFold(cmd, cfgs, k) ==
    IF k > Len(cfgs) THEN cmd
    ELSE CheckCfgsFold(
             arg(arg(IF k = 1 THEN arg(cmd, Text(<<"-","Z","u","n","s","t","a","b","l","e","-","o","p","t","i","o","n","s">>)) ELSE cmd,
                     Text(<<"-","-","c","h","e","c","k","-","c","f","g">>)),
                 Text(escape(cfgs[k]))),
             cfgs, k + 1)

RECURSIVE OutputEnvFold(_, _, _)
OutputEnvFold(cmd, vs, k) ==
    IF k > Len(vs) THEN cmd
    ELSE OutputEnvFold(env(cmd, Text(vs[k][1]), Text(vs[k][2])), vs, k + 1)

RECURSIVE LibraryPathsFold(_, _, _)
LibraryPathsFold(cmd, paths, k) ==
    IF k > Len(paths) THEN cmd
    ELSE LibraryPathsFold(arg(arg(cmd, Text(<<"-","L">>)), Text(paths[k])), paths, k + 1)

RECURSIVE LibraryLinksFold(_, _, _)
LibraryLinksFold(cmd, names, k) ==
    IF k > Len(names) THEN cmd
    ELSE LibraryLinksFold(arg(arg(cmd, Text(<<"-","l">>)), Text(names[k])), names, k + 1)

\* Mutant of PassLFlag: -l passed to every consumer
PassLFlagAlways(cmd, names, target) == LibraryLinksFold(cmd, names, 1)

\* let pass_l_flag = target.is_lib(); if pass_l_flag { ... }
PassLFlag(cmd, names, target) ==
    IF is_lib(target) THEN LibraryLinksFold(cmd, names, 1) ELSE cmd

\* format!("link-arg={}", arg)
LinkArg(a) == <<"l","i","n","k","-","a","r","g","=">> \o a

RECURSIVE LinkerArgsFold(_, _, _, _)
LinkerArgsFold(cmd, las, target, k) ==
    IF k > Len(las) THEN cmd
    ELSE IF applies_to(las[k][1], target) /\ las[k][1] = LinkArgTarget("Cdylib")
         THEN LinkerArgsFold(arg(arg(cmd, Text(<<"-","C">>)), Text(LinkArg(las[k][2]))),
                             las, target, k + 1)
         ELSE LinkerArgsFold(cmd, las, target, k + 1)

\* format!("DEP_{}_{}", envify(package_name), envify(key))
DepVar(package_name, key) ==
    <<"D","E","P","_">> \o envify(package_name) \o << "_" >> \o envify(key)

RECURSIVE MetadataFold(_, _, _, _)
MetadataFold(cmd, md, package_name, k) ==
    IF k > Len(md) THEN cmd
    ELSE MetadataFold(env(cmd, Text(DepVar(package_name, md[k][1])), Text(md[k][2])),
                      md, package_name, k + 1)

\* Option<&BuildScriptOutput>
NoOutput == [some |-> FALSE, out |-> EmptyOutput]
SomeOutput(out) == [some |-> TRUE, out |-> out]

\* add_custom_flags(cmd, output, package_name, target)
add_custom_flags(cmd, output, package_name, target) ==
    IF ~output.some THEN cmd
    ELSE MetadataFold(
             LinkerArgsFold(
                 PassLFlag(
                     LibraryPathsFold(
                         OutputEnvFold(
                             CheckCfgsFold(CfgsFold(cmd, output.out.cfgs, 1),
                                           output.out.check_cfgs, 1),
                             output.out.env, 1),
                         output.out.library_paths, 1),
                     output.out.library_links, target),
                 output.out.linker_args, target, 1),
             output.out.metadata, package_name, 1)

\* ------------------------------------------------------------------- state
\* ------------------------------------------- Invocation: args, cwd, dep-info
\* Option<Utf8PathBuf> / Option<String>, the path kept as the string it was
\* made from
NoPath == [some |-> FALSE, val |-> << >>]
SomePath(s) == [some |-> TRUE, val |-> s]

\* build_dir(): the current directory joined with the BUILD_DIR argument; the
\* driver has resolved and created it before any plan is lowered
build_dir == <<"/","b">>

is_absolute(s) == s # << >> /\ s[1] = "/"

\* Utf8Path::components: the root, then the pieces between separators; empty
\* pieces and `.` are dropped, except a leading `.`
RECURSIVE NormalPieces(_, _)
NormalPieces(pieces, k) ==
    IF k > Len(pieces) THEN << >>
    ELSE IF pieces[k] = << >> \/ (pieces[k] = <<".">> /\ k > 1)
         THEN NormalPieces(pieces, k + 1)
         ELSE << pieces[k] >> \o NormalPieces(pieces, k + 1)

components(s) ==
    IF s = << >> THEN << >>
    ELSE IF is_absolute(s)
         THEN << <<"/">> >> \o NormalPieces(split(s, "/"), 1)
         ELSE NormalPieces(split(s, "/"), 1)

\* Utf8Path::join: an absolute path replaces the base
join(base, path) ==
    IF is_absolute(path) \/ base = << >> THEN path
    ELSE IF base[Len(base)] = "/" THEN base \o path
    ELSE base \o << "/" >> \o path

\* Components collected into a path: joined by the separator
RECURSIVE FromComponents(_, _)
FromComponents(comps, k) ==
    IF k > Len(comps) THEN << >>
    ELSE IF k = 1 THEN comps[1] \o FromComponents(comps, 2)
    ELSE IF comps[k - 1] = <<"/">> THEN comps[k] \o FromComponents(comps, k + 1)
    ELSE << "/" >> \o comps[k] \o FromComponents(comps, k + 1)

ParentDirs(n) == [k \in 1 .. n |-> <<".",".">>]

\* The loop of pathdiff::diff_paths over the two component iterators
RECURSIVE DiffComponents(_, _, _)
DiffComponents(a, b, comps) ==
    IF a = << >> /\ b = << >> THEN [some |-> TRUE, val |-> comps]
    ELSE IF b = << >> THEN [some |-> TRUE, val |-> comps \o a]
    ELSE IF a = << >> THEN DiffComponents(a, Tail(b), Append(comps, <<".",".">>))
    ELSE IF comps = << >> /\ a[1] = b[1] THEN DiffComponents(Tail(a), Tail(b), comps)
    ELSE IF b[1] = <<".">> THEN DiffComponents(Tail(a), Tail(b), Append(comps, a[1]))
    ELSE IF b[1] = <<".",".">> THEN [some |-> FALSE, val |-> << >>]
    ELSE [some |-> TRUE,
          val |-> comps \o ParentDirs(Len(b)) \o a]

\* pathdiff::diff_utf8_paths(path, base)
diff_utf8_paths(path, base) ==
    IF is_absolute(path) # is_absolute(base)
    THEN (IF is_absolute(path) THEN SomePath(path) ELSE NoPath)
    ELSE LET d == DiffComponents(components(path), components(base), << >>)
         IN IF d.some THEN SomePath(FromComponents(d.val, 1)) ELSE NoPath

\* rustc(): the options that take a value, and the flags (rustc_config.rs)
LongValueOptions ==
    { <<"-","-","c","f","g">>, <<"-","-","c","h","e","c","k","-","c","f","g">>, <<"-","-","c","r","a","t","e","-","t","y","p","e">>, <<"-","-","c","r","a","t","e","-","n","a","m","e">>, <<"-","-","e","d","i","t","i","o","n">>,
      <<"-","-","e","m","i","t">>, <<"-","-","p","r","i","n","t">>, <<"-","-","o","u","t","-","d","i","r">>, <<"-","-","e","x","p","l","a","i","n">>, <<"-","-","t","a","r","g","e","t">>, <<"-","-","a","l","l","o","w">>,
      <<"-","-","w","a","r","n">>, <<"-","-","f","o","r","c","e","-","w","a","r","n">>, <<"-","-","d","e","n","y">>, <<"-","-","f","o","r","b","i","d">>, <<"-","-","c","a","p","-","l","i","n","t","s">>,
      <<"-","-","c","o","d","e","g","e","n">>, <<"-","-","e","x","t","e","r","n">>, <<"-","-","s","y","s","r","o","o","t">>, <<"-","-","e","r","r","o","r","-","f","o","r","m","a","t">>, <<"-","-","j","s","o","n">>,
      <<"-","-","c","o","l","o","r">>, <<"-","-","d","i","a","g","n","o","s","t","i","c","-","w","i","d","t","h">>, <<"-","-","r","e","m","a","p","-","p","a","t","h","-","p","r","e","f","i","x">>, <<"-","-","e","n","v","-","s","e","t">> }
ShortValueOptions ==
    { <<"-","L">>, <<"-","l">>, <<"-","o">>, <<"-","A">>, <<"-","W">>, <<"-","D">>, <<"-","F">>, <<"-","C">>, <<"-","Z">> }
Flags == { <<"-","g">>, <<"-","O">>, <<"-","-","t","e","s","t">>, <<"-","v">>, <<"-","-","v","e","r","b","o","s","e">> }

\* clap prints an error and exits the process
ClapExit == [exit |-> TRUE, INPUT |-> << >>]

\* rustc().get_matches_from(["rustc"] ++ args), then get_one("INPUT"): the one
\* positional argument; input is the positional met so far
RECURSIVE get_matches_from(_, _, _)
get_matches_from(args, k, input) ==
    IF k > Len(args)
    THEN (IF input.some THEN [exit |-> FALSE, INPUT |-> input.val] ELSE ClapExit)
    ELSE IF args[k] \in LongValueOptions \cup ShortValueOptions
         THEN (IF k = Len(args) THEN ClapExit ELSE get_matches_from(args, k + 2, input))
    ELSE IF \/ \E o \in LongValueOptions : starts_with(args[k], o \o << "=" >>)
            \/ \E o \in ShortValueOptions : starts_with(args[k], o)
            \/ args[k] \in Flags
         THEN get_matches_from(args, k + 1, input)
    ELSE IF starts_with(args[k], << "-" >>) \/ input.some THEN ClapExit
    ELSE get_matches_from(args, k + 1, SomePath(args[k]))

\* What a method call comes to: a value, or the process has exited
Returned(v) == [exit |-> FALSE, value |-> v]
ProcessExit == [exit |-> TRUE, value |-> << >>]

Rewritten(xs, orig, i) == [k \in DOMAIN xs |-> IF xs[k] = orig THEN i ELSE xs[k]]

\* Invocation::args()
args(inv) ==
    IF is_workspace_build(inv)
    THEN LET m == get_matches_from(inv.args, 1, NoPath)
             input == IF inv.cwd.some THEN SomePath(join(inv.cwd.val, m.INPUT)) ELSE NoPath
             i == IF input.some THEN diff_utf8_paths(input.val, build_dir) ELSE NoPath
         IN IF m.exit THEN ProcessExit
            ELSE IF i.some THEN Returned(Rewritten(inv.args, m.INPUT, i.val))
            ELSE Returned(inv.args)
    ELSE Returned(inv.args)

\* Invocation::cwd()
cwd(inv) == IF is_workspace_build(inv) THEN SomePath(build_dir) ELSE inv.cwd

\* A Result<String> / Result<Utf8PathBuf>
OkPath(s) == [ok |-> TRUE, val |-> s]
ErrPath == [ok |-> FALSE, val |-> << >>]

\* .find(|arg| arg.starts_with("extra-filename"))
RECURSIVE FindExtra(_, _)
FindExtra(xs, k) ==
    IF k > Len(xs) THEN NoPath
    ELSE IF starts_with(xs[k], <<"e","x","t","r","a","-","f","i","l","e","n","a","m","e">>) THEN SomePath(xs[k])
    ELSE FindExtra(xs, k + 1)

\* Invocation::extra_filename(): the second piece of the argument split on =
extra_filename(xs) ==
    LET found == FindExtra(xs, 1)
        tmp == split(found.val, "=")
    IN IF found.some /\ Len(tmp) >= 2 THEN OkPath(tmp[2]) ELSE ErrPath

\* Mutant of dep_info_file: the package name used as it is
dep_info_file_dashed(inv) ==
    LET a == args(inv)
        extra == extra_filename(a.value)
    IN IF a.exit THEN ProcessExit
       ELSE IF ~extra.ok THEN Returned(ErrPath)
       ELSE IF inv.target_kind = "CustomBuild" /\ inv.compile_mode = "Build"
            THEN Returned(OkPath(join(build_dir,
                     <<"b","u","i","l","d","/">> \o inv.package_name \o extra.val
                         \o <<"/","b","u","i","l","d","_","s","c","r","i","p","t","_","b","u","i","l","d">> \o extra.val \o <<".","d">>)))
       ELSE IF inv.target_kind = "CustomBuild" /\ inv.compile_mode = "RunCustomBuild"
            THEN Returned(ErrPath)
       ELSE Returned(OkPath(join(build_dir,
                     <<"d","e","p","s","/">> \o inv.package_name \o extra.val \o <<".","d">>)))

\* Invocation::dep_info_file()
dep_info_file(inv) ==
    LET a == args(inv)
        extra == extra_filename(a.value)
        package_name == replace(inv.package_name, << "-" >>, << "_" >>)
    IN IF a.exit THEN ProcessExit
       ELSE IF ~extra.ok THEN Returned(ErrPath)
       ELSE IF inv.target_kind = "CustomBuild" /\ inv.compile_mode = "Build"
            THEN Returned(OkPath(join(build_dir,
                     <<"b","u","i","l","d","/">> \o package_name \o extra.val
                         \o <<"/","b","u","i","l","d","_","s","c","r","i","p","t","_","b","u","i","l","d">> \o extra.val \o <<".","d">>)))
       ELSE IF inv.target_kind = "CustomBuild" /\ inv.compile_mode = "RunCustomBuild"
            THEN Returned(ErrPath)
       ELSE Returned(OkPath(join(build_dir,
                     <<"d","e","p","s","/">> \o package_name \o extra.val \o <<".","d">>)))

VARIABLES
    plan,                  \* BuildPlan.invocations
    exit_ok,               \* the scripts whose executor run (ninja -f) exits successfully
    parses,                \* the scripts whose captured output BuildScriptOutput::parse accepts
    disk,                  \* files on disk and the executor runs made so far
    lowerings,             \* to_ninja calls made by the driver so far
    filter,                \* the last call's filter
    include_custom_build,  \* the last call's flag
    graph,                 \* the FileBuilder the last call returned
    loads,                 \* per invocation lowered by the last call: its script loads
    stdout,                \* the bytes a build script printed
    env_RUSTC_BOOTSTRAP,   \* the RUSTC_BOOTSTRAP variable of the generator's process
    nightly_channel,       \* whether the host toolchain is a nightly one
    pc,                    \* what was last done with stdout
    parsed,                \* the last BuildScriptOutput::parse call: parameters and result
    loaded,                \* what build_script_output's parse_file call returned
    applied,               \* the last add_custom_flags call: parameters and command
    unit,                  \* an invocation whose methods are called
    calls,                 \* what each method called on unit came to
    start,                 \* the invocation collect_deps_recursively was called on
    frames,                \* its call stack: per frame the invocation and the loop position
    collected,             \* the deps set it has accumulated
    visits                 \* the deps.insert calls it has made

graph_vars == << plan, exit_ok, parses, disk, lowerings, filter, include_custom_build,
                 graph, loads >>

script_vars == << stdout, env_RUSTC_BOOTSTRAP, nightly_channel, pc, parsed, loaded,
                  applied >>

inv_vars == << unit, calls >>

walk_vars == << start, frames, collected, visits >>

vars == << graph_vars, script_vars, inv_vars, walk_vars >>

\* ------------------------------------------------------------ the script stage
\* Filters the callers pass: stage A (is_run_custom_build), stage B
\* (is_workspace_build), run_build_script (|i| i == &inv).
FilterHolds(flt, pl, inv) ==
    CASE flt.kind = "is_run_custom_build" -> is_run_custom_build(inv)
      [] flt.kind = "is_workspace_build" -> is_workspace_build(inv)
      [] OTHER -> inv = pl[flt.inv]

\* run_build_script's return value after the executor exited
RunResult(exit_success) == "Ok"

\* Mutants of DepPaths: the link keys forgotten; the outputs forgotten
DepPathsNoLinks(dep) == outputs(dep)
DepPathsLinksOnly(dep) == LinkKeys(links(dep))

\* What a predecessor that is no script run adds to all_outputs: its
\* outputs(), then the keys of its links()
DepPaths(dep) == outputs(dep) \o LinkKeys(links(dep))

RECURSIVE to_ninja_from(_, _, _, _, _, _)
RECURSIVE build_script_output(_, _, _)
RECURSIVE run_build_script(_, _, _)
RECURSIVE DepsFold(_, _, _, _)

RECURSIVE to_ninja(_, _, _, _)

\* to_ninja's set `deps`: collect_deps_recursively over every invocation
\* the filter keeps
RECURSIVE CollectAll(_, _, _, _, _)
CollectAll(pl, j, deps, flt, icb) ==
    IF j > Len(pl) THEN deps
    ELSE CollectAll(pl, j + 1,
                    IF FilterHolds(flt, pl, pl[j])
                    THEN collect_deps_recursively(pl, j, deps, icb)
                    ELSE deps,
                    flt, icb)

\* Mutant of Loaded: a failed load leaves what an earlier script gave
LoadedKeepEarlier(acc, d, r) ==
    [acc EXCEPT !.custom_build_output = IF r.ok THEN Some(d) ELSE @,
                !.disk = r.disk,
                !.loads = Append(@, [dep |-> d, ok |-> r.ok])]

\* custom_build_output = dep.build_script_output().map_err(eprintln).ok():
\* the result r of loading script d replaces what an earlier script left
Loaded(acc, d, r) ==
    [acc EXCEPT !.custom_build_output = IF r.ok THEN Some(d) ELSE None,
                !.disk = r.disk,
                !.loads = Append(@, [dep |-> d, ok |-> r.ok])]

\* The fold over inv.deps: the explicit deps of inv's edges and the script
\* output handed to ninja_build
DepsFold(pl, i, k, acc) ==
    IF k > Len(pl[i].deps) THEN acc
    ELSE LET d == pl[i].deps[k]
             dep == pl[d]
         IN IF ~is_run_custom_build(dep)
            THEN DepsFold(pl, i, k + 1,
                     [acc EXCEPT !.all_outputs = @ \o DepPaths(dep)])
            ELSE DepsFold(pl, i, k + 1,
                     Loaded(acc, d, build_script_output(pl, d, acc.disk)))

\* The tail of build_script_output after `run_build_script(&self)?`:
\* parse_file fails when the file cannot be read or its content is rejected
parse_file(d, file, ran) ==
    IF ran.result # "Ok"
    THEN [disk |-> ran.disk, ok |-> FALSE]
    ELSE [disk |-> ran.disk, ok |-> file \in ran.disk.exists /\ d \in parses]

\* build_script_output(): run the script when its output file is missing,
\* then parse the file
build_script_output(pl, d, dsk) ==
    IF ~has_build_script_output_file(pl[d])
    THEN [disk |-> dsk, ok |-> FALSE]
    ELSE parse_file(d, build_script_output_file(pl[d]),
                    IF build_script_output_file(pl[d]) \in dsk.exists
                    THEN [disk |-> dsk, result |-> "Ok"]
                    ELSE run_build_script(pl, d, dsk))

\* run_build_script(): write the script's own graph (lowering the plan for
\* it) unless build.ninja exists, then run the executor on it
run_build_script(pl, d, dsk) ==
    LET file == script_ninja_file(pl[d])
        written ==
            IF file \in dsk.ninja THEN dsk
            ELSE LET low == to_ninja(pl, TRUE, [kind |-> "equals", inv |-> d], dsk)
                 IN [low.disk EXCEPT !.ninja = @ \cup {file}]
        success == d \in exit_ok
        after == [written EXCEPT
                    !.exists = IF success
                               THEN @ \cup {build_script_output_file(pl[d])} ELSE @,
                    !.runs = Append(@, [inv |-> d, success |-> success,
                                        result |-> RunResult(success)])]
    IN [disk |-> after, result |-> RunResult(success)]

\* builder.merge(&inv.ninja_build(i, deps, custom_build_output)), f being
\* the result of the fold over inv.deps
MergeInvocation(acc, inv, i, f) ==
    [builder |-> Merge(acc.builder,
                       ninja_build(inv, i, f.all_outputs, f.custom_build_output)),
     disk |-> f.disk,
     loads |-> (i :> f.loads) @@ acc.loads]

\* The fold of to_ninja over the plan, from invocation i on
to_ninja_from(pl, icb, flt, i, acc, deps) ==
    IF i > Len(pl) THEN acc
    ELSE LET inv == pl[i]
             in_include_builds == \E j \in DOMAIN pl : FilterHolds(flt, pl, pl[j]) /\ pl[j] = inv
         IN IF ~in_include_builds /\ i \notin deps
            THEN to_ninja_from(pl, icb, flt, i + 1, acc, deps)
            ELSE to_ninja_from(pl, icb, flt, i + 1,
                     MergeInvocation(acc, inv, i,
                              DepsFold(pl, i, 1,
                                  [all_outputs |-> << >>, custom_build_output |-> None,
                                   disk |-> acc.disk, loads |-> << >>])),
                     deps)

\* to_ninja(include_custom_build, filter), on the files of dsk
to_ninja(pl, icb, flt, dsk) ==
    to_ninja_from(pl, icb, flt, 1,
                  [builder |-> NewFileBuilder, disk |-> dsk, loads |-> NoFn],
                  CollectAll(pl, 1, {}, flt, icb))

\* ------------------------------------------------------------ specification
Filters ==
    { [kind |-> "is_run_custom_build", inv |-> 0],
      [kind |-> "is_workspace_build", inv |-> 0] }
    \cup { [kind |-> "equals", inv |-> j] : j \in 1 .. MaxInv }

Scripts(pl) == { j \in DOMAIN pl : is_run_custom_build(pl[j]) }

EmptyDisk == [exists |-> {}, ninja |-> {}, runs |-> << >>]

\* The parameters of a parse call
Params(library_name, extra_check_cfg, nightly_features_allowed, msrv, dir, var) ==
    [library_name |-> library_name, extra_check_cfg |-> extra_check_cfg,
     nightly_features_allowed |-> nightly_features_allowed, msrv |-> msrv,
     script_out_dir_when_generated |-> dir, script_out_dir |-> dir,
     RUSTC_BOOTSTRAP |-> var]

\* The parameters of a parse call on the output of a script that ran while
\* its directory was when_generated
Moved(p, when_generated) ==
    [p EXCEPT !.script_out_dir_when_generated = when_generated]

\* The rule command the applier is handed
BaseCommand == arg(CommandBuilder(Text(<<"r","u","s","t","c">>), Workspace), Text(<<"l","i","b",".","r","s">>))

NoParse == [p |-> Params(NoName, FALSE, FALSE, NoVersion, << >>, NotPresent),
            result |-> Ok(EmptyOutput)]
NoApply == [target |-> Target(<< >>, "Lib", {}), package_name |-> << >>,
            output |-> NoOutput, cmd |-> BaseCommand]

\* No script output is looked at
NoScript ==
    /\ stdout = << >>
    /\ env_RUSTC_BOOTSTRAP = NotPresent
    /\ nightly_channel = FALSE
    /\ pc = "idle"
    /\ parsed = NoParse
    /\ loaded = Ok(EmptyOutput)
    /\ applied = NoApply

\* A unit as cargo prints it: a compiler invocation, or the run of a script
Unit(package_name, package_version, target_kind, compile_mode, plan_cwd, plan_args) ==
    [package_name |-> package_name, package_version |-> package_version,
     target_kind |-> target_kind, compile_mode |-> compile_mode, deps |-> << >>,
     outputs |-> << >>, links |-> << >>,
     env |-> IF compile_mode = "RunCustomBuild"
             THEN [k \in {"OUT_DIR"} |-> Join(ScriptDir(1), Comp("out", 0, ""))]
             ELSE NoEnv,
     program |-> Text(<<"r","u","s","t","c">>), cwd |-> plan_cwd, args |-> plan_args]

NotCalled == [called |-> FALSE, exit |-> FALSE, value |-> << >>]
Called(r) == [called |-> TRUE, exit |-> r.exit, value |-> r.value]
NoCalls == [args |-> NotCalled, cwd |-> NotCalled, dep_info_file |-> NotCalled,
            command |-> NotCalled]

\* No method of an invocation is called on its own
NoUnit ==
    /\ unit = Unit(<< >>, PackageVersion, "Lib", "Build", NoPath, << >>)
    /\ calls = NoCalls

\* No dependency walk is followed step by step
NoWalk ==
    /\ start = 0
    /\ frames = << >>
    /\ collected = {}
    /\ visits = 0

\* The plan cargo printed, and how each script of it behaves when run: the
\* executor run of a script succeeds only if those of the scripts it depends
\* on do. No file of the script stage exists yet; nothing is lowered.
Init ==
    /\ plan \in Plans
    /\ exit_ok \in SUBSET Scripts(plan)
    /\ \A d \in exit_ok :
          collect_deps_recursively(plan, d, {}, TRUE) \cap Scripts(plan) \subseteq exit_ok
    /\ parses \in SUBSET exit_ok
    /\ disk = EmptyDisk
    /\ lowerings = 0
    /\ filter = [kind |-> "none", inv |-> 0]
    /\ include_custom_build = FALSE
    /\ graph = NewFileBuilder
    /\ loads = NoFn
    /\ NoScript
    /\ NoUnit
    /\ NoWalk

\* The driver lowers the plan: plan.to_ninja(icb, flt)
ToNinja(flt, icb) ==
    /\ lowerings < MaxLowerings
    /\ \E low \in { to_ninja(plan, icb, flt, disk) } :
          /\ graph' = low.builder
          /\ disk' = low.disk
          /\ loads' = low.loads
    /\ filter' = flt
    /\ include_custom_build' = icb
    /\ lowerings' = lowerings + 1
    /\ UNCHANGED << plan, exit_ok, parses >>
    /\ UNCHANGED << script_vars, inv_vars, walk_vars >>

Next == \E flt \in Filters, icb \in BOOLEAN : ToNinja(flt, icb)

Spec == Init /\ [][Next]_vars

\* ------------------------------------------------------- views of the result
Lowered == lowerings > 0
Builds == graph.builds
Produced == DOMAIN graph.builds
Explicit(o) == Range(Builds[o].explicit)
Implicit(o) == Range(Builds[o].implicit)

\* The invocations the last call emitted a rule for
EmittedIdx == { i \in DOMAIN plan : rule_id(plan[i], i) \in DOMAIN graph.rules }

DirectDeps(i) == Range(plan[i].deps)
RunDeps(i) == { d \in DirectDeps(i) : is_run_custom_build(plan[d]) }
PlainDeps(i) == DirectDeps(i) \ RunDeps(i)

\* ---------------------------------------------------------------------- C1
\* C1: every output edge of an emitted invocation i has as explicit
\* dependencies exactly the outputs() and the links() keys of i's direct
\* predecessors that are no RunCustomBuild, and no path of a RunCustomBuild
\* predecessor.
C1_ExplicitDeps ==
    \A i \in EmittedIdx : \A o \in Range(outputs(plan[i])) :
        /\ o \in Produced
        /\ Explicit(o) =
              UNION { Range(outputs(plan[d])) \cup Range(LinkKeys(links(plan[d])))
                        : d \in PlainDeps(i) }
        /\ \A r \in RunDeps(i) : Range(outputs(plan[r])) \cap Explicit(o) = {}

C1_Witness ==
    \E i \in EmittedIdx :
        /\ outputs(plan[i]) # << >>
        /\ RunDeps(i) # {}
        /\ \E d \in PlainDeps(i) : links(plan[d]) # << >> /\ outputs(plan[d]) # << >>

\* ---------------------------------------------------------------------- C2
\* C2: the invocations a rule is emitted for are the primaries (those the
\* filter keeps) and their transitive predecessors, where with
\* include_custom_build false a CustomBuild or RunCustomBuild predecessor is
\* neither added nor descended into.
Primaries == { j \in DOMAIN plan : FilterHolds(filter, plan, plan[j]) }

Kept(d) ==
    include_custom_build \/ ~(is_run_custom_build(plan[d]) \/ is_custom_build(plan[d]))

RECURSIVE VisitedClosure(_)
VisitedClosure(S) ==
    LET next == S \cup { d \in DOMAIN plan : Kept(d) /\ \E x \in S : d \in DirectDeps(x) }
    IN IF next = S THEN S ELSE VisitedClosure(next)

C2_Included == Lowered => EmittedIdx = VisitedClosure(Primaries)

C2_Witness ==
    /\ Lowered
    /\ ~include_custom_build
    /\ \E i \in EmittedIdx, d \in EmittedIdx :
          /\ i \in Primaries /\ d \notin Primaries /\ d \in DirectDeps(i)
          /\ \E c \in DirectDeps(d) :
                ~Kept(c) /\ c \notin EmittedIdx /\ c \notin DirectDeps(i)

\* ---------------------------------------------------------------------- C3
\* C3: when the load of a RunCustomBuild predecessor's script output fails
\* during a lowering, the generation aborts: no graph is produced.
LoadFailed == \E i \in DOMAIN loads : \E k \in DOMAIN loads[i] : ~loads[i][k].ok

C3_AbortsOnLoadFailure == LoadFailed => graph = NewFileBuilder

\* ---------------------------------------------------------------------- C4
\* C4: every (link, target) of an emitted invocation's links() has exactly
\* one producing edge in the graph, which uses the hard-link rule and has
\* target as its only explicit dependency.
\* The file() calls of the last lowering that insert an edge for path p
Producers(p) ==
    UNION { { << i, "output", k >> :
                k \in { k \in DOMAIN outputs(plan[i]) : outputs(plan[i])[k] = p } }
            \cup { << i, "dir", k >> :
                k \in { k \in DOMAIN dirs(plan[i]) : dirs(plan[i])[k] = p } }
            \cup { << i, "link", k >> :
                k \in { k \in DOMAIN links(plan[i]) : links(plan[i])[k][1] = p } }
          : i \in EmittedIdx }

C4_Links ==
    \A i \in EmittedIdx : \A k \in DOMAIN links(plan[i]) :
        LET link == links(plan[i])[k][1]
            target == links(plan[i])[k][2]
        IN /\ link \in Produced
           /\ Cardinality(Producers(link)) = 1
           /\ Builds[link].rule = LINK_RULE_ID
           /\ Builds[link].explicit = << target >>

C4_Witness ==
    \E i \in EmittedIdx : links(plan[i]) # << >> /\ Len(plan[i].links) > Len(links(plan[i]))

\* ---------------------------------------------------------------------- C5
\* C5: every output edge and every hard-link edge producing a path o has
\* the marker of o's own directory, parent(o)/.ninja_dir, as an implicit
\* dependency.
C5_MarkerOfProducedPath ==
    \A o \in Produced :
        Builds[o].rule # ENSURE_DIR_ALL_RULE_ID => ninja_dir(o) \in Implicit(o)

\* ---------------------------------------------------------------------- C6
\* C6: every .ninja_dir marker that is an implicit dependency of an edge is
\* produced by an edge of the same graph, which uses the
\* directory-materialisation rule.
C6_MarkersProduced ==
    \A o \in Produced : \A m \in Implicit(o) :
        m \in Produced /\ Builds[m].rule = ENSURE_DIR_ALL_RULE_ID

\* ---------------------------------------------------------------------- C7
\* C7: no dwp path of the plan's outputs or link targets is in the graph,
\* neither as a produced path nor as an explicit or implicit dependency of an
\* edge, while the other outputs and links of the same emitted invocation
\* are produced.
PlanDwpPaths ==
    UNION { { o \in Range(plan[i].outputs) : Extension(o) = "dwp" }
            \cup { l[2] : l \in { l \in Range(plan[i].links) : Extension(l[2]) = "dwp" } }
          : i \in DOMAIN plan }

C7_NoDwp ==
    /\ \A p \in PlanDwpPaths :
          /\ p \notin Produced
          /\ \A o \in Produced : p \notin Explicit(o) /\ p \notin Implicit(o)
    /\ \A i \in EmittedIdx :
          ~is_run_custom_build(plan[i]) =>
             /\ \A o \in Range(plan[i].outputs) : Extension(o) # "dwp" => o \in Produced
             /\ \A l \in Range(plan[i].links) :
                   Extension(l[2]) # "dwp" =>
                      l[1] \in Produced /\ Builds[l[1]].explicit = << l[2] >>

C7_Witness ==
    \E i \in EmittedIdx, j \in EmittedIdx :
        /\ i \in DirectDeps(j)
        /\ \E o \in Range(plan[i].outputs) : Extension(o) = "dwp"
        /\ \E l \in Range(plan[i].links) : Extension(l[2]) = "dwp"
        /\ outputs(plan[j]) # << >>

\* ---------------------------------------------------------------------- C8
\* C8 as stated: for emitted A and B with B in A.deps, every edge producing
\* an output of A lists every path of B.outputs(), whatever B's compile mode.
C8_AllPredecessorOutputs ==
    \A a \in EmittedIdx, b \in EmittedIdx :
        b \in DirectDeps(a) =>
            \A o \in Range(outputs(plan[a])) :
                Range(outputs(plan[b])) \subseteq Explicit(o)

\* C8 as amended: the same for every B whose compile mode is not
\* RunCustomBuild.
C8_PlainPredecessorOutputs ==
    \A a \in EmittedIdx, b \in EmittedIdx :
        (b \in DirectDeps(a) /\ ~is_run_custom_build(plan[b])) =>
            \A o \in Range(outputs(plan[a])) :
                o \in Produced /\ Range(outputs(plan[b])) \subseteq Explicit(o)

C8_Witness ==
    \E a \in EmittedIdx, b \in EmittedIdx :
        /\ b \in DirectDeps(a) /\ ~is_run_custom_build(plan[b])
        /\ is_custom_build(plan[b])
        /\ outputs(plan[a]) # << >> /\ outputs(plan[b]) # << >>

\* ---------------------------------------------------------------------- C9
\* C9: over any sequence of lowerings the executor is run at most once for
\* the script of a given RunCustomBuild invocation.
RunsOf(d) == { k \in DOMAIN disk.runs : disk.runs[k].inv = d }

C9_ScriptRunAtMostOnce == \A d \in DOMAIN plan : Cardinality(RunsOf(d)) <= 1

\* ---------------------------------------------------------------------- C10
\* C10: an executor run that exits unsuccessfully makes run_build_script
\* return an error to its caller.
C10_ExecutorFailurePropagated ==
    \A k \in DOMAIN disk.runs : ~disk.runs[k].success => disk.runs[k].result # "Ok"

\* ---------------------------------------------------------------------- C19
\* C19: the command of every emitted invocation's rule carries, after the
\* program, the plan's args in their order without the --error-format=json
\* and --json=* ones (each escaped for the shell), then --error-format=human;
\* no argument of the command is --error-format=json or starts with --json=.
IsJsonArg(a) == a = <<"-","-","e","r","r","o","r","-","f","o","r","m","a","t","=","j","s","o","n">> \/ starts_with(a, <<"-","-","j","s","o","n","=">>)

KeptArgs(i) == SelectSeq(plan[i].args, LAMBDA a : ~IsJsonArg(a))

CommandOf(i) == graph.rules[rule_id(plan[i], i)].command

C19_CommandArgs ==
    \A i \in EmittedIdx :
        LET cmd == CommandOf(i)
            kept == KeptArgs(i)
        IN /\ Len(cmd.args) >= Len(kept) + 2
           /\ cmd.args[1] = plan[i].program
           /\ SubSeq(cmd.args, 2, Len(kept) + 1)
                 = [k \in DOMAIN kept |-> Text(escape(kept[k]))]
           /\ cmd.args[Len(kept) + 2] = Text(<<"-","-","e","r","r","o","r","-","f","o","r","m","a","t","=","h","u","m","a","n">>)
           /\ ~is_run_custom_build(plan[i]) => Len(cmd.args) = Len(kept) + 2
           /\ \A k \in DOMAIN cmd.args : ~IsJsonArg(cmd.args[k].text)

C19_Witness ==
    \E i \in EmittedIdx :
        /\ \E k \in DOMAIN plan[i].args : plan[i].args[k] = <<"-","-","e","r","r","o","r","-","f","o","r","m","a","t","=","j","s","o","n">>
        /\ \E k \in DOMAIN plan[i].args : starts_with(plan[i].args[k], <<"-","-","j","s","o","n","=">>)
        /\ Len(KeptArgs(i)) > 0
        /\ Len(KeptArgs(i)) + 2 < Len(plan[i].args) + 2

\* ---------------------------------------------------------------------- C20
\* C20: for every emitted RunCustomBuild invocation with OUT_DIR set, the
\* one edge of its rule produces parent(OUT_DIR)/output, whatever outputs
\* the plan lists, and its command ends with `> parent(OUT_DIR)/output`,
\* which captures the script's instruction stream in that file.
EdgesOf(i) == { o \in Produced : Builds[o].rule = rule_id(plan[i], i) }

C20_SoleOutputAndCapture ==
    \A i \in EmittedIdx :
        (is_run_custom_build(plan[i]) /\ has_build_script_output_file(plan[i])) =>
            LET file == build_script_output_file(plan[i])
                cmd == CommandOf(i)
                n == Len(cmd.args)
            IN /\ EdgesOf(i) = {file}
               /\ n >= 2
               /\ cmd.args[n - 1] = Text(<<">">>)
               /\ cmd.args[n] = PathText(file)

\* ---------------------------------------------------------------------- C23
\* C23: lowering is deterministic: two runs of to_ninja on the same plan with
\* the same filter, the same include_custom_build flag and the same script
\* output files on disk produce identical graphs; each emitted invocation
\* has its own rule, whose id embeds the invocation's plan index.
\* No script output file exists before the first lowering and none is ever
\* removed: while none exists, every lowering so far started from the same
\* files.
InvocationRules == DOMAIN graph.rules \ {LINK_RULE_ID, ENSURE_DIR_ALL_RULE_ID}

SameInputsSameGraph ==
    (/\ Lowered
     /\ lowerings' = lowerings + 1
     /\ disk.exists = {}
     /\ filter' = filter
     /\ include_custom_build' = include_custom_build) => graph' = graph

RuleIdsEmbedIndex ==
    /\ InvocationRules = { rule_id(plan[i], i) : i \in EmittedIdx }
    /\ Cardinality(InvocationRules) = Cardinality(EmittedIdx)
    /\ \A id \in InvocationRules : id[1] \in EmittedIdx /\ id = rule_id(plan[id[1]], id[1])
    /\ \A i \in EmittedIdx : \A o \in Range(outputs(plan[i])) :
           o \in Produced /\ Builds[o].rule[1] = i

LastRunDep(i) == CHOOSE d \in RunDeps(i) : \A e \in RunDeps(i) : e <= d

RuleOf(i) == graph.rules[rule_id(plan[i], i)]

C27_LastScriptOutputWins ==
    \A i \in EmittedIdx :
        Cardinality(RunDeps(i)) >= 2 =>
            /\ Len(loads[i]) = Cardinality(RunDeps(i))
            /\ loads[i][Len(loads[i])].dep = LastRunDep(i)
            /\ RuleOf(i).custom_build_output =
                  IF loads[i][Len(loads[i])].ok THEN Some(LastRunDep(i)) ELSE None

\* An earlier script output loaded, the last one did not: nothing is handed over
C27_Witness ==
    \E i \in EmittedIdx :
        /\ Cardinality(RunDeps(i)) >= 2
        /\ \E k \in 1 .. Len(loads[i]) - 1 : loads[i][k].ok
        /\ ~loads[i][Len(loads[i])].ok
        /\ RuleOf(i).custom_build_output = None

\* ---------------------------------------------------------------------- C28
\* C28: dependency closure of an emitted graph: every path that appears as
\* an explicit dependency of an edge is produced by some edge of the same
\* graph, also when include_custom_build is false.
C28_ExplicitDepsProduced ==
    Lowered => \A o \in Produced : Explicit(o) \subseteq Produced

\* C28 as the code has it: every explicit dependency of an edge is produced
\* by an edge of the same graph, or is an output or hard link of a
\* CustomBuild predecessor that include_custom_build = false left out of
\* the graph.
LeftOut ==
    { d \in DOMAIN plan :
        is_custom_build(plan[d]) /\ ~is_run_custom_build(plan[d]) /\ d \notin EmittedIdx }

PathsOf(d) == Range(outputs(plan[d])) \cup Range(LinkKeys(links(plan[d])))

C28_ExplicitDepsProducedOrLeftOut ==
    Lowered =>
        \A o \in Produced : \A e \in Explicit(o) :
            \/ e \in Produced
            \/ ~include_custom_build /\ \E d \in LeftOut : e \in PathsOf(d)

\* A graph without the script stage in which an invocation depends on a
\* path the graph produces and on one of a script build left out
C28_Witness ==
    /\ Lowered
    /\ ~include_custom_build
    /\ \E o \in Produced :
          /\ \E e \in Explicit(o) : e \in Produced
          /\ \E e \in Explicit(o) : e \notin Produced

\* ============================================================ script outputs
\* The specification of the script-output parser and applier: a script's
\* captured stdout is parsed (with any parameters), or loaded the way
\* build_script_output loads it and then applied to a consumer's command.
MaxLines == 2
MaxFlagTokens == 3

\* The instructions after the cargo: or cargo:: prefix
Bodies ==
    { <<"r","u","s","t","c","-","c","f","g","=","x">>, <<"r","u","s","t","c","-","c","h","e","c","k","-","c","f","g","=","c","f","g","(","y",")">>, <<"r","u","s","t","c","-","l","i","n","k","-","l","i","b","=","z">>,
      <<"r","u","s","t","c","-","l","i","n","k","-","s","e","a","r","c","h","=","/","o","/","l","i","b">>, <<"r","u","s","t","c","-","l","i","n","k","-","a","r","g","=","-","a">>,
      <<"r","u","s","t","c","-","l","i","n","k","-","a","r","g","-","c","d","y","l","i","b","=","-","c">>, <<"r","u","s","t","c","-","c","d","y","l","i","b","-","l","i","n","k","-","a","r","g","=","-","d">>,
      <<"r","u","s","t","c","-","l","i","n","k","-","a","r","g","-","b","i","n","s","=","-","b">>, <<"r","u","s","t","c","-","l","i","n","k","-","a","r","g","-","b","i","n","=","a","p","p","=","-","s">>,
      <<"r","u","s","t","c","-","l","i","n","k","-","a","r","g","-","b","i","n","=","-","s">>, <<"r","u","s","t","c","-","l","i","n","k","-","a","r","g","-","t","e","s","t","s","=","-","t">>,
      <<"r","u","s","t","c","-","l","i","n","k","-","a","r","g","-","b","e","n","c","h","e","s","=","-","n">>, <<"r","u","s","t","c","-","l","i","n","k","-","a","r","g","-","e","x","a","m","p","l","e","s","=","-","e">>,
      <<"r","u","s","t","c","-","l","i","n","k","-","a","r","g","-","f","o","o","=","-","f">>, <<"r","u","s","t","c","-","e","n","v","=","K","=","v">>, <<"r","u","s","t","c","-","e","n","v","=","K">>,
      <<"r","u","s","t","c","-","e","n","v","=","R","U","S","T","C","_","B","O","O","T","S","T","R","A","P","=","1">>, <<"w","a","r","n","i","n","g","=","w">>, <<"r","e","r","u","n","-","i","f","-","c","h","a","n","g","e","d","=","f">>,
      <<"r","e","r","u","n","-","i","f","-","e","n","v","-","c","h","a","n","g","e","d","=","E">>, <<"m","e","t","a","d","a","t","a","=","k","=","v">>, <<"m","e","t","a","d","a","t","a","=","k">>,
      <<"l","i","n","k","s","-","n","a","m","e","=","f","o","o">>, <<"a","-","b","=","c","=","d">>, <<"f","o","o">>, <<"r","u","s","t","c","-","c","f","g">>, << >>, <<"=","v">>,
      <<"r","u","s","t","c","-","c","f","g","s","=","x">>, <<"r","u","s","t","c","-","f","l","a","g","s","=","-","L","f","o","o"," ","-","l","b","a","r">>, <<"r","u","s","t","c","-","f","l","a","g","s","=","-","l","\t","b","a","r"," "," ","-","L"," "," ","f","o","o"," ">>,
      <<"r","u","s","t","c","-","f","l","a","g","s","=","-","L"," ","-","l","b","a","r">>, <<"r","u","s","t","c","-","f","l","a","g","s","=","-","x">>, <<"r","u","s","t","c","-","f","l","a","g","s","=","-","L","f","o","o"," ","-","L">> }

\* The tokens of the rustc-flags values tried in every combination
FlagTokens == { <<"-","L">>, <<"-","l">>, <<"-","l","b","a","r">>, <<"f","o","o">> }

RECURSIVE JoinWith(_, _, _)
JoinWith(seqs, sep, k) ==
    IF k > Len(seqs) THEN << >>
    ELSE (IF k > 1 THEN sep ELSE << >>) \o seqs[k] \o JoinWith(seqs, sep, k + 1)

FlagValues ==
    { JoinWith(ts, << " " >>, 1) :
        ts \in UNION { [1 .. n -> FlagTokens] : n \in 0 .. MaxFlagTokens } }

Lines ==
    { <<"c","a","r","g","o",":">> \o b : b \in Bodies } \cup { <<"c","a","r","g","o",":",":">> \o b : b \in Bodies }
    \cup { <<"c","a","r","g","o",":","r","u","s","t","c","-","f","l","a","g","s","=">> \o v : v \in FlagValues }
    \cup { <<"h","e","l","l","o">>, <<" "," ","c","a","r","g","o",":","r","u","s","t","c","-","c","f","g","=","x"," ","\t">>, <<"c","a","r","g","o">>, <<"c","a","r","g",":","r","u","s","t","c","-","c","f","g","=","x">>,
           << "c", "a", "r", "g", "o", ":", "r", "u", "s", "t", "c", "-", "c", "f", "g",
              "=", InvalidByte >> }

\* The lines combined with each other
SmallLines ==
    { <<"c","a","r","g","o",":","r","u","s","t","c","-","l","i","n","k","-","l","i","b","=","z">>, <<"c","a","r","g","o",":",":","r","u","s","t","c","-","l","i","n","k","-","l","i","b","=","y">>,
      <<"c","a","r","g","o",":","r","u","s","t","c","-","f","l","a","g","s","=","-","l","w"," ","-","L","/","p">>, <<"c","a","r","g","o",":",":","m","e","t","a","d","a","t","a","=","a","_","b","=","1">>, <<"c","a","r","g","o",":","a","-","b","=","2">> }

Stdouts ==
    { l \o << "\n" >> : l \in Lines }
    \cup { JoinWith(ls, << "\n" >>, 1) \o << "\n" >> :
             ls \in UNION { [1 .. n -> SmallLines] : n \in 2 .. MaxLines } }

\* The directory the script ran in, which parse_file is told twice
ScriptOutDir == <<"/","o">>

\* The package of the script that printed stdout
ScriptPackage == <<"f","o","o">>

LibraryNames == { NoName, SomeName(ScriptPackage) }
Versions == { NoVersion, SomeVersion(1, 76, 9), SomeVersion(1, 77, 0), SomeVersion(2, 0, 0) }
RustcBootstrapValues == { NotPresent, Var(<<"1">>), Var(<<"b","a","r",",","f","o","o">>) }

\* The consumers a script output is applied to
PackageNames == { <<"a","p","p">>, <<"m","y","-","p","k","g">> }
Targets ==
    { Target(<<"m","y","-","p","k","g">>, "Lib", {"rlib"}), Target(<<"m","y","-","p","k","g">>, "Lib", {"cdylib"}),
      Target(<<"a","p","p">>, "Bin", {}), Target(<<"m","y","-","p","k","g">>, "Bin", {}),
      Target(<<"a","p","p">>, "Test", {}), Target(<<"a","p","p">>, "Bench", {}),
      Target(<<"a","p","p">>, "ExampleBin", {}) }

\* A script has printed stdout; nothing is lowered in this specification
ScriptInit ==
    /\ stdout \in Stdouts
    /\ env_RUSTC_BOOTSTRAP \in RustcBootstrapValues
    /\ nightly_channel \in BOOLEAN
    /\ pc = "idle"
    /\ parsed = NoParse
    /\ loaded = Ok(EmptyOutput)
    /\ applied = NoApply
    /\ plan = << >>
    /\ exit_ok = {}
    /\ parses = {}
    /\ disk = EmptyDisk
    /\ lowerings = 0
    /\ filter = [kind |-> "none", inv |-> 0]
    /\ include_custom_build = FALSE
    /\ graph = NewFileBuilder
    /\ loads = NoFn
    /\ NoUnit
    /\ NoWalk

\* BuildScriptOutput::parse called on stdout by a caller that passes the
\* host's channel as nightly_features_allowed
Parse(library_name, extra_check_cfg, msrv, when_generated) ==
    /\ pc = "idle"
    /\ \E p \in { Moved(Params(library_name, extra_check_cfg, nightly_channel,
                               msrv, ScriptOutDir, env_RUSTC_BOOTSTRAP),
                        when_generated) } :
          parsed' = [p |-> p, result |-> parse(stdout, p)]
    /\ pc' = "parsed"
    /\ UNCHANGED << stdout, env_RUSTC_BOOTSTRAP, nightly_channel, loaded, applied >>
    /\ UNCHANGED << graph_vars, inv_vars, walk_vars >>

\* build_script_output() on a script whose output file holds stdout:
\* parse_file(file, Some(package_name), &package_name, dir, dir, true, true, &None)
Load ==
    /\ pc = "idle"
    /\ loaded' = parse(stdout, Params(SomeName(ScriptPackage), TRUE, TRUE, NoVersion,
                                      ScriptOutDir, env_RUSTC_BOOTSTRAP))
    /\ pc' = "loaded"
    /\ UNCHANGED << stdout, env_RUSTC_BOOTSTRAP, nightly_channel, parsed, applied >>
    /\ UNCHANGED << graph_vars, inv_vars, walk_vars >>

\* add_custom_flags called with what the load returned (.ok())
Apply(target, package_name) ==
    /\ pc = "loaded"
    /\ \E output \in { IF loaded.ok THEN SomeOutput(loaded.out) ELSE NoOutput } :
          applied' = [target |-> target, package_name |-> package_name,
                      output |-> output,
                      cmd |-> add_custom_flags(BaseCommand, output, package_name, target)]
    /\ pc' = "applied"
    /\ UNCHANGED << stdout, env_RUSTC_BOOTSTRAP, nightly_channel, parsed, loaded >>
    /\ UNCHANGED << graph_vars, inv_vars, walk_vars >>

ScriptNext ==
    \/ \E library_name \in LibraryNames, extra_check_cfg \in BOOLEAN, msrv \in Versions :
          Parse(library_name, extra_check_cfg, msrv, ScriptOutDir)
    \/ Load
    \/ \E target \in Targets, package_name \in PackageNames : Apply(target, package_name)

ScriptSpec == ScriptInit /\ [][ScriptNext]_vars

\* ------------------------------------------------------- views of the script
\* The lines of stdout; a stdout of one line ends with its newline
StdoutLines == split(stdout, "\n")
SingleLine ==
    Len(StdoutLines) = 2 /\ StdoutLines[2] = << >> /\ from_utf8_ok(StdoutLines[1])
TheLine == trim(StdoutLines[1])

IsNewSyntax(line) == starts_with(line, <<"c","a","r","g","o",":",":">>)
IsOldSyntax(line) == starts_with(line, <<"c","a","r","g","o",":">>) /\ ~IsNewSyntax(line)
RestOf(line) ==
    IF IsNewSyntax(line) THEN SubSeq(line, 8, Len(line)) ELSE SubSeq(line, 7, Len(line))

\* The keys of the key dispatch table that the old syntax reserves
ReservedKeys ==
    { <<"r","u","s","t","c","-","f","l","a","g","s">>, <<"r","u","s","t","c","-","l","i","n","k","-","l","i","b">>, <<"r","u","s","t","c","-","l","i","n","k","-","s","e","a","r","c","h">>, <<"r","u","s","t","c","-","l","i","n","k","-","a","r","g">>,
      <<"r","u","s","t","c","-","l","i","n","k","-","a","r","g","-","c","d","y","l","i","b">>, <<"r","u","s","t","c","-","l","i","n","k","-","a","r","g","-","b","i","n","s">>, <<"r","u","s","t","c","-","l","i","n","k","-","a","r","g","-","b","i","n">>,
      <<"r","u","s","t","c","-","l","i","n","k","-","a","r","g","-","t","e","s","t","s">>, <<"r","u","s","t","c","-","l","i","n","k","-","a","r","g","-","b","e","n","c","h","e","s">>,
      <<"r","u","s","t","c","-","l","i","n","k","-","a","r","g","-","e","x","a","m","p","l","e","s">>, <<"r","u","s","t","c","-","c","d","y","l","i","b","-","l","i","n","k","-","a","r","g">>, <<"r","u","s","t","c","-","c","f","g">>,
      <<"r","u","s","t","c","-","c","h","e","c","k","-","c","f","g">>, <<"r","u","s","t","c","-","e","n","v">>, <<"w","a","r","n","i","n","g">>, <<"r","e","r","u","n","-","i","f","-","c","h","a","n","g","e","d">>,
      <<"r","e","r","u","n","-","i","f","-","e","n","v","-","c","h","a","n","g","e","d">> }

\* The errors only the arm of a typed directive raises
TypedErrors == { "rustc_flags", "link_arg_bin", "rustc_env", "rustc_bootstrap" }

\* ---------------------------------------------------------------------- C11
\* C11: parsing an old-syntax line cargo:<rest> whose key (the text before
\* the first `=`) is reserved runs that key's typed directive and leaves
\* metadata alone; for any other key the pair (key, text after the first
\* `=`) becomes the metadata and every typed field stays empty; a <rest>
\* without `=` fails the parse.
C11_OldSyntax ==
    (pc = "parsed" /\ SingleLine /\ IsOldSyntax(TheLine)) =>
        LET rest == RestOf(TheLine)
            res == parsed.result
        IN IF ~contains(rest, "=") THEN ~res.ok
           ELSE IF Before(rest, "=") \in ReservedKeys
                THEN /\ res.out.metadata = << >>
                     /\ ~res.ok => res.err \in TypedErrors
                     /\ (res.ok /\ res.out = EmptyOutput) =>
                           \/ Before(rest, "=") = <<"r","u","s","t","c","-","c","h","e","c","k","-","c","f","g">>
                                 /\ ~parsed.p.extra_check_cfg
                           \/ Before(rest, "=") = <<"r","u","s","t","c","-","f","l","a","g","s">>
                                 /\ \A k \in DOMAIN After(rest, "=") :
                                        is_whitespace(After(rest, "=")[k])
                     /\ Before(rest, "=") = <<"r","u","s","t","c","-","c","f","g">> =>
                           res.ok /\ res.out.cfgs = << After(rest, "=") >>
                     /\ Before(rest, "=") = <<"r","u","s","t","c","-","l","i","n","k","-","l","i","b">> =>
                           res.ok /\ res.out.library_links = << After(rest, "=") >>
                     /\ Before(rest, "=") = <<"r","u","s","t","c","-","l","i","n","k","-","s","e","a","r","c","h">> =>
                           res.ok /\ res.out.library_paths = << After(rest, "=") >>
                ELSE /\ res.ok
                     /\ res.out = [EmptyOutput EXCEPT !.metadata =
                                      << << Before(rest, "="), After(rest, "=") >> >>]

C11_Witness ==
    /\ pc = "parsed" /\ SingleLine
    /\ TheLine = <<"c","a","r","g","o",":","a","-","b","=","c","=","d">>
    /\ parsed.result.ok
    /\ parsed.result.out.metadata = << << <<"a","-","b">>, <<"c","=","d">> >> >>

\* ---------------------------------------------------------------------- C12
\* C12: parsing a new-syntax line cargo::KEY=VALUE that passes the MSRV
\* check: with KEY metadata, the pair VALUE splits into at its first `=` is
\* appended to metadata, and the parse fails when VALUE has no `=`; with a
\* KEY outside the dispatch table the parse fails; a line without any `=`
\* fails the parse.
C12_NewSyntax ==
    (/\ pc = "parsed" /\ SingleLine /\ IsNewSyntax(TheLine)
     /\ (parsed.p.msrv.some =>
            parsed.p.msrv.v[1] * 10000 + parsed.p.msrv.v[2] * 100 + parsed.p.msrv.v[3]
               >= 17700)) =>
        LET rest == RestOf(TheLine)
            res == parsed.result
        IN IF ~contains(rest, "=") THEN ~res.ok /\ res.err = "no_equals"
           ELSE IF Before(rest, "=") = <<"m","e","t","a","d","a","t","a">>
                THEN IF contains(After(rest, "="), "=")
                     THEN /\ res.ok
                          /\ res.out = [EmptyOutput EXCEPT !.metadata =
                                << << Before(After(rest, "="), "="),
                                      After(After(rest, "="), "=") >> >>]
                     ELSE ~res.ok /\ res.err = "no_equals"
                ELSE Before(rest, "=") \notin ReservedKeys =>
                        ~res.ok /\ res.err = "unknown_key"

C12_Witness ==
    /\ pc = "parsed" /\ SingleLine
    /\ TheLine = <<"c","a","r","g","o",":",":","m","e","t","a","d","a","t","a","=","k","=","v">>
    /\ parsed.p.msrv = SomeVersion(1, 77, 0)
    /\ parsed.result.out.metadata = << << <<"k">>, <<"v">> >> >>

\* ---------------------------------------------------------------------- C13
\* C13: when stdout holds a cargo:: line and the msrv handed to parse is
\* below 1.77.0 the parse fails; with no msrv or one of at least 1.77.0 the
\* parse never fails with the MSRV error; and without any cargo:: line it
\* never fails with the MSRV error whatever the msrv.
HasNewSyntaxLine ==
    \E k \in DOMAIN StdoutLines :
        from_utf8_ok(StdoutLines[k]) /\ IsNewSyntax(trim(StdoutLines[k]))

MsrvBelow ==
    /\ parsed.p.msrv.some
    /\ parsed.p.msrv.v[1] * 10000 + parsed.p.msrv.v[2] * 100 + parsed.p.msrv.v[3] < 17700

C13_Msrv ==
    pc = "parsed" =>
        /\ (HasNewSyntaxLine /\ MsrvBelow) => ~parsed.result.ok
        /\ ~MsrvBelow => parsed.result.err # "msrv"
        /\ ~HasNewSyntaxLine => parsed.result.err # "msrv"

C13_Witness ==
    /\ pc = "parsed"
    /\ Len(StdoutLines) = 3
    /\ IsOldSyntax(trim(StdoutLines[1])) /\ IsNewSyntax(trim(StdoutLines[2]))
    /\ MsrvBelow
    /\ parsed.result.err = "msrv"

\* ---------------------------------------------------------------------- C14
\* C14: loading a script output that holds rustc-env=RUSTC_BOOTSTRAP=<v>
\* fails when the host toolchain is no nightly and the RUSTC_BOOTSTRAP
\* variable of the process does not list the script's package; in the two
\* allowed cases a one-line output loads and the warning is recorded.
SetsBootstrap ==
    \E k \in DOMAIN StdoutLines :
        /\ from_utf8_ok(StdoutLines[k])
        /\ \/ starts_with(trim(StdoutLines[k]), <<"c","a","r","g","o",":","r","u","s","t","c","-","e","n","v","=","R","U","S","T","C","_","B","O","O","T","S","T","R","A","P","=">>)
           \/ starts_with(trim(StdoutLines[k]), <<"c","a","r","g","o",":",":","r","u","s","t","c","-","e","n","v","=","R","U","S","T","C","_","B","O","O","T","S","T","R","A","P","=">>)

ExternalBypass ==
    /\ env_RUSTC_BOOTSTRAP.set
    /\ \E k \in DOMAIN split(env_RUSTC_BOOTSTRAP.value, ",") :
          split(env_RUSTC_BOOTSTRAP.value, ",")[k] = ScriptPackage

C14_BootstrapRejected ==
    (pc = "loaded" /\ SetsBootstrap) =>
        IF ~nightly_channel /\ ~ExternalBypass
        THEN ~loaded.ok
        ELSE SingleLine =>
                /\ loaded.ok
                /\ \E k \in DOMAIN loaded.out.warnings :
                      loaded.out.warnings[k].kind = "rustc_bootstrap"

\* ---------------------------------------------------------------------- C15
\* C15: for a rustc-flags value, with its tokens the maximal runs of
\* non-whitespace characters: the parse succeeds exactly when every token
\* is -L or -l with or without an attached value or is the value of the
\* bare flag before it, and the last token is no bare flag; library_paths
\* then holds the -L values and library_links the -l values, each in token
\* order.
FlagsValue == After(RestOf(TheLine), "=")

TokenStarts(v) ==
    { a \in DOMAIN v : ~is_whitespace(v[a]) /\ (a = 1 \/ is_whitespace(v[a - 1])) }

TokenEnd(v, a) ==
    CHOOSE b \in a .. Len(v) :
        /\ \A c \in a .. b : ~is_whitespace(v[c])
        /\ b = Len(v) \/ is_whitespace(v[b + 1])

Tokens(v) ==
    [k \in 1 .. Cardinality(TokenStarts(v)) |->
        LET a == CHOOSE a \in TokenStarts(v) :
                     Cardinality({ x \in TokenStarts(v) : x < a }) = k - 1
        IN SubSeq(v, a, TokenEnd(v, a))]

IsFlag(t) == Len(t) >= 2 /\ t[1] = "-" /\ t[2] \in {"l", "L"}

\* The role of each token: a bare flag, a flag with its value attached, the
\* value of the bare flag before it, or none of these
RECURSIVE Role(_, _)
Role(ts, k) ==
    IF k > 1 /\ Role(ts, k - 1) = "bare" THEN "value"
    ELSE IF ~IsFlag(ts[k]) THEN "bad"
    ELSE IF Len(ts[k]) = 2 THEN "bare" ELSE "attached"

\* The values given to the flag of letter c, in token order
RECURSIVE ValuesOf(_, _, _)
ValuesOf(ts, c, k) ==
    IF k > Len(ts) THEN << >>
    ELSE (CASE Role(ts, k) = "attached" /\ ts[k][2] = c ->
                  << SubSeq(ts[k], 3, Len(ts[k])) >>
            [] Role(ts, k) = "value" /\ ts[k - 1][2] = c -> << ts[k] >>
            [] OTHER -> << >>)
         \o ValuesOf(ts, c, k + 1)

C15_RustcFlags ==
    (/\ pc = "parsed" /\ SingleLine /\ IsOldSyntax(TheLine)
     /\ starts_with(RestOf(TheLine), <<"r","u","s","t","c","-","f","l","a","g","s","=">>)) =>
        LET ts == Tokens(FlagsValue)
            res == parsed.result
        IN /\ res.ok <=> /\ \A k \in DOMAIN ts : Role(ts, k) # "bad"
                         /\ ts # << >> => Role(ts, Len(ts)) # "bare"
           /\ res.ok =>
                 res.out = [EmptyOutput EXCEPT
                               !.library_paths = ValuesOf(ts, "L", 1),
                               !.library_links = ValuesOf(ts, "l", 1)]

C15_Witness ==
    /\ pc = "parsed" /\ SingleLine
    /\ TheLine = <<"c","a","r","g","o",":","r","u","s","t","c","-","f","l","a","g","s","=","-","L","f","o","o"," ","-","l","b","a","r">>
    /\ parsed.result.ok
    /\ parsed.result.out.library_paths = << <<"f","o","o">> >>
    /\ parsed.result.out.library_links = << <<"b","a","r">> >>

\* ---------------------------------------------------------------------- C16
\* C16: the -C link-arg=<arg> flags the applier adds are, in order, those of
\* the pairs (target, arg) of linker_args whose target applies to the
\* consuming invocation.
AddedArgs == SubSeq(applied.cmd.args, Len(BaseCommand.args) + 1, Len(applied.cmd.args))

C16_LinkArgs ==
    (pc = "applied" /\ applied.output.some) =>
        SelectSeq(AddedArgs, LAMBDA a : starts_with(a.text, <<"l","i","n","k","-","a","r","g","=">>))
          = LET las == SelectSeq(applied.output.out.linker_args,
                                 LAMBDA la : applies_to(la[1], applied.target))
            IN [k \in DOMAIN las |-> Text(<<"l","i","n","k","-","a","r","g","=">> \o las[k][2])]

\* ---------------------------------------------------------------------- C17
\* C17: applied to a library, a script output adds -l <name> for each entry
\* of library_links, in order; applied to anything else it adds no -l; in
\* both cases it adds -L <p> for each entry of library_paths, in order.
\* The values given to the option flag in args, read from the left, the
\* options --cfg, --check-cfg, -L, -l and -C taking the next argument as
\* their value
ValueOptions == { <<"-","-","c","f","g">>, <<"-","-","c","h","e","c","k","-","c","f","g">>, <<"-","L">>, <<"-","l">>, <<"-","C">> }

RECURSIVE Following(_, _, _)
Following(xs, flag, k) ==
    IF k >= Len(xs) THEN << >>
    ELSE IF xs[k].text \in ValueOptions
         THEN (IF xs[k] = Text(flag) THEN << xs[k + 1].text >> ELSE << >>)
                 \o Following(xs, flag, k + 2)
         ELSE Following(xs, flag, k + 1)

C17_LibraryFlags ==
    (pc = "applied" /\ applied.output.some) =>
        /\ Following(AddedArgs, <<"-","L">>, 1) = applied.output.out.library_paths
        /\ applied.target.target_kind = "Lib" =>
              Following(AddedArgs, <<"-","l">>, 1) = applied.output.out.library_links
        /\ applied.target.target_kind # "Lib" =>
              Following(AddedArgs, <<"-","l">>, 1) = << >>

C17_Witness ==
    /\ pc = "applied" /\ applied.output.some
    /\ applied.target.target_kind = "Bin"
    /\ Len(applied.output.out.library_links) = 2
    /\ Len(applied.output.out.library_paths) = 1
    /\ Len(AddedArgs) = 2

\* ---------------------------------------------------------------------- C18
\* C18: for the metadata pairs (k, v) of an applied script output the
\* command's last env() calls set, in order, DEP_<P>_<K> to v, P and K
\* being the package name and k with every letter uppercased, every `-`
\* turned into `_` and every other character kept; with no script output
\* the command is the one handed in.
Envified(s) ==
    [i \in DOMAIN s |-> IF s[i] = "-" THEN "_" ELSE to_uppercase(s[i])]

C18_DepEnv ==
    pc = "applied" =>
        IF ~applied.output.some THEN applied.cmd = BaseCommand
        ELSE LET md == applied.output.out.metadata
                 envs == applied.cmd.env
             IN /\ Len(envs) >= Len(md)
                /\ \A k \in DOMAIN md :
                      envs[Len(envs) - Len(md) + k]
                        = << Text(<<"D","E","P","_">> \o Envified(applied.package_name)
                                     \o << "_" >> \o Envified(md[k][1])),
                             Text(md[k][2]) >>
                /\ (applied.package_name = <<"m","y","-","p","k","g">>
                      /\ md = << << <<"l","i","n","k","s","-","n","a","m","e">>, <<"f","o","o">> >> >>) =>
                      envs = << << Text(<<"D","E","P","_","M","Y","_","P","K","G","_","L","I","N","K","S","_","N","A","M","E">>), Text(<<"f","o","o">>) >> >>

C18_Witness ==
    /\ pc = "applied" /\ applied.output.some
    /\ applied.package_name = <<"m","y","-","p","k","g">>
    /\ TheLine = <<"c","a","r","g","o",":","l","i","n","k","s","-","n","a","m","e","=","f","o","o">>
    /\ applied.cmd.env = << << Text(<<"D","E","P","_","M","Y","_","P","K","G","_","L","I","N","K","S","_","N","A","M","E">>), Text(<<"f","o","o">>) >> >>

\* =========================================================================
\* The methods of one invocation, called on their own: args(), cwd(),
\* dep_info_file() and the command ninja_build gives its rule.
\* =========================================================================
\* No plan is lowered
NoGraph ==
    /\ plan = << >>
    /\ exit_ok = {}
    /\ parses = {}
    /\ disk = EmptyDisk
    /\ lowerings = 0
    /\ filter = [kind |-> "none", inv |-> 0]
    /\ include_custom_build = FALSE
    /\ graph = NewFileBuilder
    /\ loads = NoFn

\* Packages: two workspace members, a version of a member that is not the
\* workspace's, a registry package
UnitPackages ==
    { << <<"a","p","p">>, PackageVersion >>, << <<"m","y","-","a","p","p">>, PackageVersion >>,
      << <<"m","y","-","a","p","p">>, "0.2.0" >>, << <<"d","e","p","-","x">>, PackageVersion >> }

UnitKinds ==
    { << "Lib", "Build" >>, << "Lib", "Check" >>, << "Bin", "Build" >>, << "Test", "Test" >>,
      << "CustomBuild", "Build" >>, << "CustomBuild", "RunCustomBuild" >> }

\* The plan's cwd: absent, outside the build directory, inside it, relative
UnitCwds == { NoPath, SomePath(<<"/","w","s">>), SomePath(<<"/","b","/","s","u","b">>), SomePath(<<"w","s">>) }

UnitArgs ==
    { << <<"-","-","c","r","a","t","e","-","n","a","m","e">>, <<"a","p","p">>, <<"-","-","e","d","i","t","i","o","n","=","2","0","2","1">>, <<"s","r","c","/","m","a","i","n",".","r","s">>, <<"-","-","c","r","a","t","e","-","t","y","p","e">>,
         <<"b","i","n">>, <<"-","C">>, <<"e","x","t","r","a","-","f","i","l","e","n","a","m","e","=","-","1","a">>, <<"-","-","o","u","t","-","d","i","r">>, <<"/","b","/","d","e","p","s">>,
         <<"-","-","e","r","r","o","r","-","f","o","r","m","a","t","=","j","s","o","n">>, <<"-","-","j","s","o","n","=","x">> >>,
      << <<"l","i","b",".","r","s">>, <<"-","-","c","f","g">>, <<"a"," ","b">>, <<"-","C">>, <<"e","x","t","r","a","-","f","i","l","e","n","a","m","e","=","-","2","b">> >>,
      << <<"-","-","c","r","a","t","e","-","n","a","m","e">>, <<"a","p","p">>, <<".","/","s","r","c","/","l","i","b",".","r","s">>, <<"-","C","d","e","b","u","g","i","n","f","o","=","2">> >>,
      << <<"/","w","s","/","b","u","i","l","d",".","r","s">>, <<"-","C">>, <<"e","x","t","r","a","-","f","i","l","e","n","a","m","e","=">>, <<"-","g">> >>,
      << <<"-","C">>, <<"m","e","t","a","d","a","t","a","=","9">>, <<".",".","/","x","/","l","i","b",".","r","s">>, <<"-","C">>, <<"e","x","t","r","a","-","f","i","l","e","n","a","m","e","=","-","5","e">> >> }

InvocationInit ==
    /\ \E pkg \in UnitPackages, km \in UnitKinds, c \in UnitCwds, a \in UnitArgs :
          unit = Unit(pkg[1], pkg[2], km[1], km[2], c, a)
    /\ calls = NoCalls
    /\ NoGraph
    /\ NoScript
    /\ NoWalk

Args ==
    /\ ~calls.args.called
    /\ calls' = [calls EXCEPT !.args = Called(args(unit))]
    /\ UNCHANGED << unit, graph_vars, script_vars, walk_vars >>

Cwd ==
    /\ ~calls.cwd.called
    /\ calls' = [calls EXCEPT !.cwd = Called(Returned(cwd(unit)))]
    /\ UNCHANGED << unit, graph_vars, script_vars, walk_vars >>

DepInfoFile ==
    /\ ~calls.dep_info_file.called
    /\ calls' = [calls EXCEPT !.dep_info_file = Called(dep_info_file(unit))]
    /\ UNCHANGED << unit, graph_vars, script_vars, walk_vars >>

\* The rule command ninja_build makes for the unit
NinjaBuildCommand ==
    /\ ~calls.command.called
    /\ calls' = [calls EXCEPT !.command = Called(Returned(command(unit)))]
    /\ UNCHANGED << unit, graph_vars, script_vars, walk_vars >>

InvocationNext == Args \/ Cwd \/ DepInfoFile \/ NinjaBuildCommand

InvocationSpec == InvocationInit /\ [][InvocationNext]_vars

\* ---------------------------------------------------------------------- C21
\* C21: dep_info_file returns <build_dir>/build/<pkg_underscored><extra>/
\* build_script_build<extra>.d for a CustomBuild target in Build mode,
\* <build_dir>/deps/<pkg_underscored><extra>.d for every other target and
\* mode except CustomBuild with RunCustomBuild, and an error for CustomBuild
\* with RunCustomBuild and for an invocation whose args carry no
\* extra-filename; <pkg_underscored> is the package name with every `-`
\* replaced by `_`.
ExtraPrefix == <<"e","x","t","r","a","-","f","i","l","e","n","a","m","e","=">>

CarriesExtra == \E k \in DOMAIN unit.args : starts_with(unit.args[k], ExtraPrefix)

\* The text after extra-filename= in the first argument that carries it
ExtraOf ==
    LET k == CHOOSE j \in DOMAIN unit.args :
                 /\ starts_with(unit.args[j], ExtraPrefix)
                 /\ \A h \in 1 .. j - 1 : ~starts_with(unit.args[h], ExtraPrefix)
    IN SubSeq(unit.args[k], Len(ExtraPrefix) + 1, Len(unit.args[k]))

Underscored(s) == [k \in DOMAIN s |-> IF s[k] = "-" THEN "_" ELSE s[k]]

IsScriptBuild == unit.target_kind = "CustomBuild" /\ unit.compile_mode = "Build"
IsScriptRun == unit.target_kind = "CustomBuild" /\ unit.compile_mode = "RunCustomBuild"

C21_DepInfoFile ==
    calls.dep_info_file.called =>
        /\ ~calls.dep_info_file.exit
        /\ IF IsScriptRun \/ ~CarriesExtra
           THEN ~calls.dep_info_file.value.ok
           ELSE /\ calls.dep_info_file.value.ok
                /\ calls.dep_info_file.value.val =
                      IF IsScriptBuild
                      THEN build_dir \o <<"/","b","u","i","l","d","/">> \o Underscored(unit.package_name)
                             \o ExtraOf \o <<"/","b","u","i","l","d","_","s","c","r","i","p","t","_","b","u","i","l","d">> \o ExtraOf \o <<".","d">>
                      ELSE build_dir \o <<"/","d","e","p","s","/">> \o Underscored(unit.package_name)
                             \o ExtraOf \o <<".","d">>

\* A script build of a package with a dash in its name got its dep-info path
C21_Witness ==
    /\ calls.dep_info_file.called
    /\ IsScriptBuild
    /\ unit.package_name = <<"m","y","-","a","p","p">>
    /\ calls.dep_info_file.value
          = OkPath(<<"/","b","/","b","u","i","l","d","/","m","y","_","a","p","p","-","1","a","/","b","u","i","l","d","_","s","c","r","i","p","t","_","b","u","i","l","d","-","1","a",".","d">>)

\* ---------------------------------------------------------------------- C22
\* C22: for a workspace invocation (name and version of a workspace member,
\* neither CustomBuild nor RunCustomBuild) with cwd w and input argument p,
\* the lowered command has the build root as cwd and the input argument
\* replaced by the path of w/p relative to the build root, all other
\* arguments unchanged and in order; for a non-workspace invocation args and
\* cwd are exactly those of the plan.
IsWorkspaceUnit ==
    /\ << unit.package_name, unit.package_version >> \in WorkspacePackages
    /\ unit.target_kind # "CustomBuild"
    /\ unit.compile_mode # "RunCustomBuild"

\* The unit's input argument: the one argument that is a source file
InputArg == CHOOSE a \in Range(unit.args) : \E k \in DOMAIN a : SubSeq(a, k, Len(a)) = <<".","r","s">>

\* The unit as C22 has it lowered
RelativeToRoot(rel) ==
    [unit EXCEPT !.cwd = SomePath(build_dir),
                 !.args = [k \in DOMAIN unit.args |->
                              IF unit.args[k] = InputArg THEN rel ELSE unit.args[k]]]

C22_WorkspaceCommand ==
    calls.command.called =>
        IF IsWorkspaceUnit
        THEN unit.cwd.some =>
               \E rel \in { diff_utf8_paths(join(unit.cwd.val, InputArg), build_dir) } :
                   rel.some => calls.command.value = command(RelativeToRoot(rel.val))
        ELSE /\ calls.command.value.cwd = unit.cwd
             /\ calls.command.value = command(unit)

\* ---------------------------------------------------------------------- C29
\* C29: the working directory and the arguments are rewritten together:
\* cwd() returns the build root instead of the plan's cwd if and only if
\* args() returns the argument vector with the input path made relative to
\* the build root; a workspace invocation whose plan cwd is absent never
\* gets the build root as cwd while keeping its unrewritten input argument.
C29_RewrittenTogether ==
    (calls.cwd.called /\ calls.args.called /\ ~calls.args.exit) =>
        ((calls.cwd.value = SomePath(build_dir))
            <=> (\E rel \in { diff_utf8_paths(join(unit.cwd.val, InputArg), build_dir) } :
                    /\ unit.cwd.some
                    /\ rel.some
                    /\ calls.args.value = RelativeToRoot(rel.val).args))

\* =========================================================================
\* collect_deps_recursively followed call by call: each frame of the stack is
\* one activation, at position k of its loop over invocation.deps.
\* =========================================================================
\* The plans walked: what matters of a unit is whether it is a script build,
\* a script run or neither
WalkShapes == {"lib", "build", "run"}

WalkPlans ==
    { [i \in 1 .. MaxInv |-> Invocation(sh[i], i, dl[i])] :
        sh \in [1 .. MaxInv -> WalkShapes],
        dl \in { f \in [1 .. MaxInv -> UNION { DepLists(i) : i \in 1 .. MaxInv }] :
                   \A i \in 1 .. MaxInv : f[i] \in DepLists(i) } }

Frame(i, k) == [inv |-> i, k |-> k]

\* collect_deps_recursively(invocation, plan, &mut deps, include_custom_build)
\* is called with an empty set
WalkInit ==
    /\ plan \in WalkPlans
    /\ include_custom_build \in BOOLEAN
    /\ start \in DOMAIN plan
    /\ frames = << Frame(start, 1) >>
    /\ collected = {}
    /\ visits = 0
    /\ exit_ok = {}
    /\ parses = {}
    /\ disk = EmptyDisk
    /\ lowerings = 0
    /\ filter = [kind |-> "none", inv |-> 0]
    /\ graph = NewFileBuilder
    /\ loads = NoFn
    /\ NoScript
    /\ NoUnit

Top == frames[Len(frames)]
TopDeps == plan[Top.inv].deps
Advanced == [frames EXCEPT ![Len(frames)].k = @ + 1]

\* The loop of the top activation is over: it returns
Return ==
    /\ frames # << >>
    /\ Top.k > Len(TopDeps)
    /\ frames' = SubSeq(frames, 1, Len(frames) - 1)
    /\ UNCHANGED << collected, visits >>
    /\ UNCHANGED << start, plan, include_custom_build >>
    /\ UNCHANGED << exit_ok, parses, disk, lowerings, filter, graph, loads >>
    /\ UNCHANGED << script_vars, inv_vars >>

\* continue: the predecessor is skipped
Continue ==
    /\ frames # << >>
    /\ Top.k <= Len(TopDeps)
    /\ skipped(plan[TopDeps[Top.k]], include_custom_build)
    /\ frames' = Advanced
    /\ UNCHANGED << collected, visits >>
    /\ UNCHANGED << start, plan, include_custom_build >>
    /\ UNCHANGED << exit_ok, parses, disk, lowerings, filter, graph, loads >>
    /\ UNCHANGED << script_vars, inv_vars >>

\* deps.insert(i); collect_deps_recursively(d, ...)
Descend ==
    /\ frames # << >>
    /\ Top.k <= Len(TopDeps)
    /\ ~skipped(plan[TopDeps[Top.k]], include_custom_build)
    /\ collected' = collected \cup {TopDeps[Top.k]}
    /\ visits' = visits + 1
    /\ frames' = Append(Advanced, Frame(TopDeps[Top.k], 1))
    /\ UNCHANGED << start, plan, include_custom_build >>
    /\ UNCHANGED << exit_ok, parses, disk, lowerings, filter, graph, loads >>
    /\ UNCHANGED << script_vars, inv_vars >>

WalkNext == Return \/ Continue \/ Descend

\* The call runs on: a step that can be taken is taken
WalkSpec == WalkInit /\ [][WalkNext]_vars /\ WF_vars(WalkNext)

\* ---------------------------------------------------------------------- C26
\* C26: on a plan in which every dependency index is smaller than the index
\* of the invocation holding it, collect_deps_recursively terminates, and
\* the set it accumulates equals the one an iterative traversal with a
\* visited set computes (the transitive predecessors, pruned at CustomBuild
\* and RunCustomBuild nodes when include_custom_build is false), although
\* the recursion has no visited check and revisits shared predecessors.
WalkReturned == frames = << >>

C26_TerminatesWithClosure ==
    /\ <>WalkReturned
    /\ [](WalkReturned => collected = VisitedClosure({start}) \ {start})
    /\ [](\A k \in 1 .. Len(frames) - 1 : frames[k + 1].inv < frames[k].inv)

\* The call has returned after inserting a shared predecessor more than once
C26_Witness ==
    /\ WalkReturned
    /\ visits > Cardinality(collected)
    /\ Cardinality(collected) >= 2

\* =========================================================================
\* A script output printed in one directory, parsed for another and applied
\* to a consumer's command.
\* =========================================================================
\* The directory the script wrote its output in
GeneratedDirs == { ScriptOutDir, <<"/","g">> }

OutputLines ==
    { <<"c","a","r","g","o",":","r","u","s","t","c","-","c","h","e","c","k","-","c","f","g","=","a">>, <<"c","a","r","g","o",":",":","r","u","s","t","c","-","c","h","e","c","k","-","c","f","g","=","c"," ","d">>, <<"c","a","r","g","o",":","r","u","s","t","c","-","c","f","g","=","x">>,
      <<"c","a","r","g","o",":","r","u","s","t","c","-","e","n","v","=","R","U","S","T","C","_","B","O","O","T","S","T","R","A","P","=","1">>, <<"c","a","r","g","o",":","r","u","s","t","c","-","e","n","v","=","D","=","/","g","/","a",":","/","g">>,
      <<"c","a","r","g","o",":","r","u","s","t","c","-","l","i","n","k","-","s","e","a","r","c","h","=","/","g","/","l","i","b">>, <<"c","a","r","g","o",":","/","g","=","/","o">>, <<"c","a","r","g","o",":","w","a","r","n","i","n","g","=","/","o","/","g">> }

Outputs ==
    { JoinWith(ls, << "\n" >>, 1) \o << "\n" >> :
        ls \in UNION { [1 .. n -> OutputLines] : n \in 1 .. MaxLines } }

BypassValues == { NotPresent, Var(<<"b","a","r",",","f","o","o">>) }

ConsumerTargets == { Target(<<"m","y","-","p","k","g">>, "Lib", {"rlib"}), Target(<<"a","p","p">>, "Bin", {}) }

MovedInit ==
    /\ stdout \in Outputs
    /\ env_RUSTC_BOOTSTRAP \in BypassValues
    /\ nightly_channel \in BOOLEAN
    /\ pc = "idle"
    /\ parsed = NoParse
    /\ loaded = Ok(EmptyOutput)
    /\ applied = NoApply
    /\ NoGraph
    /\ NoUnit
    /\ NoWalk

\* add_custom_flags called with Some(&output), output being what parse returned
ApplyParsed(target, package_name) ==
    /\ pc = "parsed"
    /\ parsed.result.ok
    /\ \E output \in { SomeOutput(parsed.result.out) } :
          applied' = [target |-> target, package_name |-> package_name,
                      output |-> output,
                      cmd |-> add_custom_flags(BaseCommand, output, package_name, target)]
    /\ pc' = "applied"
    /\ UNCHANGED << stdout, env_RUSTC_BOOTSTRAP, nightly_channel, parsed, loaded >>
    /\ UNCHANGED << graph_vars, inv_vars, walk_vars >>

MovedNext ==
    \/ \E library_name \in LibraryNames, extra_check_cfg \in BOOLEAN,
          when_generated \in GeneratedDirs :
          Parse(library_name, extra_check_cfg, NoVersion, when_generated)
    \/ \E target \in ConsumerTargets : ApplyParsed(target, <<"a","p","p">>)

MovedSpec == MovedInit /\ [][MovedNext]_vars

\* ------------------------------------------------------ views of the output
\* The directive lines of stdout, trimmed
DirectiveLines ==
    LET ls == [k \in DOMAIN StdoutLines |-> trim(StdoutLines[k])]
    IN SelectSeq(ls, LAMBDA l : IsNewSyntax(l) \/ IsOldSyntax(l))

\* The key of a directive line with a `=`, and the text the key is given
IsTyped(l) == IsNewSyntax(l) \/ Before(RestOf(l), "=") \in ReservedKeys
KeyOf(l) == IF IsTyped(l) THEN Before(RestOf(l), "=") ELSE <<"m","e","t","a","d","a","t","a">>
PayloadOf(l) == IF IsTyped(l) THEN After(RestOf(l), "=") ELSE RestOf(l)

\* Where from starts in s
Occurrences(s, from) ==
    { j \in DOMAIN s : j + Len(from) - 1 <= Len(s)
                         /\ SubSeq(s, j, j + Len(from) - 1) = from }

\* s with every occurrence of from overwritten by to, for a from and a to of
\* one length and a from that cannot overlap itself
ReplacedAll(s, from, to) ==
    [k \in DOMAIN s |->
        IF \E j \in Occurrences(s, from) : k \in j .. j + Len(from) - 1
        THEN to[k + 1 - CHOOSE j \in Occurrences(s, from) : k \in j .. j + Len(from) - 1]
        ELSE s[k]]

\* The payload of a line as the parser is to interpret it
MovedPayload(l) ==
    ReplacedAll(PayloadOf(l), parsed.p.script_out_dir_when_generated,
                parsed.p.script_out_dir)

LinesWithKey(key) == SelectSeq(DirectiveLines, LAMBDA l : KeyOf(l) = key)

Positions(flag) == { k \in DOMAIN AddedArgs : AddedArgs[k] = Text(flag) }

\* ---------------------------------------------------------------------- C24
\* C24: a script output parsed with extra_check_cfg = false adds neither
\* --check-cfg nor -Zunstable-options to the consuming command; parsed with
\* extra_check_cfg = true and n >= 1 rustc-check-cfg lines, the command gains
\* exactly n pairs --check-cfg <value> (the value shell-escaped), in line
\* order, and exactly one -Zunstable-options, before the first --check-cfg.
C24_CheckCfg ==
    pc = "applied" =>
        LET ls == LinesWithKey(<<"r","u","s","t","c","-","c","h","e","c","k","-","c","f","g">>)
        IN IF ~parsed.p.extra_check_cfg
           THEN /\ Positions(<<"-","-","c","h","e","c","k","-","c","f","g">>) = {}
                /\ Positions(<<"-","Z","u","n","s","t","a","b","l","e","-","o","p","t","i","o","n","s">>) = {}
           ELSE Len(ls) >= 1 =>
                   /\ Cardinality(Positions(<<"-","-","c","h","e","c","k","-","c","f","g">>)) = Len(ls)
                   /\ Following(AddedArgs, <<"-","-","c","h","e","c","k","-","c","f","g">>, 1)
                        = [k \in DOMAIN ls |-> escape(MovedPayload(ls[k]))]
                   /\ Cardinality(Positions(<<"-","Z","u","n","s","t","a","b","l","e","-","o","p","t","i","o","n","s">>)) = 1
                   /\ \A z \in Positions(<<"-","Z","u","n","s","t","a","b","l","e","-","o","p","t","i","o","n","s">>) :
                         \A c \in Positions(<<"-","-","c","h","e","c","k","-","c","f","g">>) : z < c

\* Two check-cfg lines, the second one's value quoted, after one flag
C24_Witness ==
    /\ pc = "applied"
    /\ parsed.p.extra_check_cfg
    /\ AddedArgs = << Text(<<"-","Z","u","n","s","t","a","b","l","e","-","o","p","t","i","o","n","s">>), Text(<<"-","-","c","h","e","c","k","-","c","f","g">>), Text(<<"a">>),
                      Text(<<"-","-","c","h","e","c","k","-","c","f","g">>), Text(<<"'","c"," ","d","'">>) >>

\* ---------------------------------------------------------------------- C25
\* C25: the value stored for an accepted directive line is the line's
\* payload with every occurrence of script_out_dir_when_generated replaced
\* by script_out_dir, the replacement made before the payload is
\* interpreted (split at `=` for rustc-env and metadata); a payload without
\* the directory, and any payload when both directories are equal, is
\* stored as printed.
C25_OutDirReplaced ==
    (pc = "parsed" /\ Len(DirectiveLines) = 1 /\ parsed.result.ok) =>
        LET l == DirectiveLines[1]
            v == MovedPayload(l)
            out == parsed.result.out
            untouched ==
                \/ parsed.p.script_out_dir_when_generated = parsed.p.script_out_dir
                \/ Occurrences(PayloadOf(l), parsed.p.script_out_dir_when_generated) = {}
        IN /\ untouched => v = PayloadOf(l)
           /\ CASE KeyOf(l) = <<"r","u","s","t","c","-","l","i","n","k","-","s","e","a","r","c","h">> ->
                      out = [EmptyOutput EXCEPT !.library_paths = << v >>]
                [] KeyOf(l) = <<"r","u","s","t","c","-","c","f","g">> ->
                      out = [EmptyOutput EXCEPT !.cfgs = << v >>]
                [] KeyOf(l) = <<"r","u","s","t","c","-","c","h","e","c","k","-","c","f","g">> ->
                      out = [EmptyOutput EXCEPT !.check_cfgs =
                                IF parsed.p.extra_check_cfg THEN << v >> ELSE << >>]
                [] KeyOf(l) = <<"w","a","r","n","i","n","g">> ->
                      out = [EmptyOutput EXCEPT !.warnings = << Warning(v) >>]
                [] KeyOf(l) = <<"r","u","s","t","c","-","e","n","v">> /\ Before(v, "=") # <<"R","U","S","T","C","_","B","O","O","T","S","T","R","A","P">> ->
                      out = [EmptyOutput EXCEPT !.env =
                                << << Before(v, "="), After(v, "=") >> >>]
                [] KeyOf(l) = <<"m","e","t","a","d","a","t","a">> ->
                      out = [EmptyOutput EXCEPT !.metadata =
                                << << Before(v, "="), After(v, "=") >> >>]
                [] OTHER -> TRUE

\* A value holding the old directory twice, stored with the new one twice
C25_Witness ==
    /\ pc = "parsed"
    /\ DirectiveLines = << <<"c","a","r","g","o",":","r","u","s","t","c","-","e","n","v","=","D","=","/","g","/","a",":","/","g">> >>
    /\ parsed.p.script_out_dir_when_generated = <<"/","g">>
    /\ parsed.result.ok
    /\ parsed.result.out.env = << << <<"D">>, <<"/","o","/","a",":","/","o">> >> >>

\* ---------------------------------------------------------------------- C30
\* C30: no script output that parse returns has an env entry of key
\* RUSTC_BOOTSTRAP: a rustc-env=RUSTC_BOOTSTRAP=<v> line that is allowed
\* (nightly, or the variable of the process naming the library) adds one
\* warning and nothing to env, and the command the output is applied to
\* gets no RUSTC_BOOTSTRAP variable.
IsBootstrapLine(l) ==
    KeyOf(l) = <<"r","u","s","t","c","-","e","n","v">> /\ Before(MovedPayload(l), "=") = <<"R","U","S","T","C","_","B","O","O","T","S","T","R","A","P">>

BootstrapWarnings ==
    SelectSeq(parsed.result.out.warnings, LAMBDA w : w.kind = "rustc_bootstrap")

C30_NoBootstrapEnv ==
    /\ (pc \in {"parsed", "applied"} /\ parsed.result.ok) =>
          LET envs == SelectSeq(LinesWithKey(<<"r","u","s","t","c","-","e","n","v">>),
                                LAMBDA l : ~IsBootstrapLine(l))
              boots == SelectSeq(DirectiveLines, IsBootstrapLine)
          IN /\ \A k \in DOMAIN parsed.result.out.env :
                   parsed.result.out.env[k][1] # <<"R","U","S","T","C","_","B","O","O","T","S","T","R","A","P">>
             /\ parsed.result.out.env
                  = [k \in DOMAIN envs |-> << Before(MovedPayload(envs[k]), "="),
                                              After(MovedPayload(envs[k]), "=") >>]
             /\ BootstrapWarnings
                  = [k \in DOMAIN boots |->
                        CannotSetBootstrap(After(MovedPayload(boots[k]), "="))]
             /\ boots # << >> =>
                   \/ parsed.p.nightly_features_allowed
                   \/ rustc_bootstrap_allows(parsed.p.library_name, env_RUSTC_BOOTSTRAP)
    /\ pc = "applied" =>
          \A k \in DOMAIN applied.cmd.env :
             applied.cmd.env[k][1] # Text(<<"R","U","S","T","C","_","B","O","O","T","S","T","R","A","P">>)

\* A line allowed by the variable of the process, next to a line that sets a
\* variable: one warning, and the command gets the other variable only
C30_Witness ==
    /\ pc = "applied"
    /\ ~nightly_channel
    /\ Len(BootstrapWarnings) = 1
    /\ Len(parsed.result.out.warnings) = 1
    /\ Len(applied.cmd.env) = 1

====
